---- MODULE Spec2Model ----
(***************************************************************************)
(* Model of the sveltekit-sync server side: the ServerSyncEngine           *)
(* (push / pull over a ServerAdapter), the Drizzle adapter's versioned     *)
(* writes and change feed, and the RealtimeServer fan-out.                 *)
(***************************************************************************)
EXTENDS Integers, Sequences, FiniteSets, Bags, TLC

\* ------------------------------------------------------------------ bounds
MaxVersion == 3      \* highest _version a row is driven to
MaxTime == 1         \* clock values and op timestamps range over 0..MaxTime
MaxConnIds == 2      \* connection ids handed out over a run
MaxReconnectAttempts == 3   \* the realtime client's maxReconnectAttempts
MaxBatch == 3        \* operations in a push batch whose adapter may fail
MaxUpdates == 1      \* update() calls made on a collection view
MaxOps == 1          \* operations the application queues on the client
MaxForce == 1        \* sync(true) calls over a run
MaxInits == 2        \* init() calls made on one engine
MaxConflicts == 2    \* conflicts recorded and not yet resolved

\* ----------------------------------------------------------------- domains
None == "none"                       \* null / undefined / absent key
Null == [null |-> TRUE]              \* findOne's null result
Users == {"u1", "u2"}
Clients == {"c1", "c2"}
Texts == {"a", "b"}
Tables == {"todos", "notes"}
Ids == {"r1"}
Times == 0 .. MaxTime
Strategies == {"client-wins", "server-wins", "last-write-wins"}

VARIABLES
    config,          \* SyncConfig given to the engine (fixed after construction)
    workload,        \* which operations the clients produce (see OpPool)
    batchSize,       \* the clients' batch size: longest batch pushed
    rows,            \* the server store: (table, id) -> row, soft-deleted rows included
    now,             \* the server clock (new Date())
    pc,              \* "idle" | "processing": position of the push call in flight
    pushClient,      \* operations[0].clientId of the push in flight / last push
    pushUser,        \* userId argument of the push in flight / last push
    nOps,            \* operations of the batch processed so far
    opRef,           \* the loop variable op: the operation processed last
    syncedOps,       \* operations whose id is in result.synced, in order
    conflicts,       \* result.conflicts
    errors,          \* result.errors
    logged,          \* ids handed to adapter.logSyncOperation by this push
    thrown,          \* what the adapter threw while the last operation was processed
    stateUpdated,    \* (clientId, userId) the last call handed to adapter.updateClientState
    pulled,          \* return value of the last pull
    pullArgs,        \* arguments of the last pull
    connections,     \* RealtimeServer.connections, in Map insertion order
    userConnections, \* RealtimeServer.userConnections: user -> connection ids in Set order
    nextConn,        \* next connection id
    delivered,       \* events enqueued on streams by the last server call
    inflight,        \* client -> its push call that runs beside other push calls
    replicas,        \* client -> the local store, queue and lastSync of its engine and
                     \* the realtime batches on their way to it
    rcConfig,        \* RealtimeClient.config: the reconnect settings (fixed)
    realtimeClient,  \* RealtimeClient's fields: enabled, eventSource, status,
                     \* reconnectAttempts, reconnectTimer, heartbeatTimer, and
                     \* heard: an event came in since the watchdog was armed
                     \* (history)
    delays,          \* delays scheduled since the stream last opened (history)
    rcCall,          \* what the realtime client's last step was (history)
    seConfig,        \* SyncEngine.config: syncInterval, batchSize, conflictResolution
    syncEngine,      \* SyncEngine's fields: isInitialized, isSyncing, syncStatus,
                     \* syncTimer, pendingOps, conflicts
    localDb,         \* the client store: the durable queue, the row, the initialized flag
    calls,           \* the sync() and init() calls awaiting the remote
    trace,           \* what the client engine's last step was and did (history)
    collection       \* a CollectionStore: data, error, the update() call awaiting
                     \* the engine, and the table of the client store it views

vars == << config, workload, batchSize, rows, now, pc, pushClient, pushUser, nOps,
           opRef, syncedOps, conflicts, errors, logged, thrown, stateUpdated, pulled,
           pullArgs, connections, userConnections, nextConn, delivered, inflight, replicas,
           rcConfig, realtimeClient, delays, rcCall,
           seConfig, syncEngine, localDb, calls, trace, collection >>

pushVars == << pc, pushClient, pushUser, nOps, opRef, syncedOps, conflicts, errors,
              logged, thrown >>
rtVars == << connections, userConnections, nextConn >>
fixedVars == << config, workload, batchSize >>
rcVars == << rcConfig, realtimeClient, delays, rcCall >>
seVars == << seConfig, syncEngine, localDb, calls, trace >>
viewVars == << collection >>
clientVars == << rcVars, seVars, viewVars >>
serverVars == << fixedVars, rows, now, pushVars, stateUpdated, pulled, pullArgs,
                 rtVars, delivered, inflight, replicas, viewVars >>

\* ------------------------------------------------------- operations (input)
\* SyncOperation; id and clientId are filled in when the client batches it.
Payload(t, kind, rid, text, duid, ts, ver) ==
    [ id |-> 0, table |-> t, operation |-> kind,
      data |-> [id |-> rid, text |-> text, userId |-> duid],
      timestamp |-> ts, clientId |-> None, version |-> ver, userId |-> None ]

InsertOps(ts) ==
    { Payload(t, "insert", i, x, u, s, 1) :
        t \in ts, i \in Ids, x \in Texts, u \in Users \cup {None}, s \in Times }
UpdateOps(ts) ==
    { Payload(t, "update", i, x, None, s, v) :
        t \in ts, i \in Ids, x \in Texts, s \in Times, v \in 2 .. MaxVersion + 1 }
DeleteOps(ts) ==
    { Payload(t, "delete", i, None, None, s, 1) : t \in ts, i \in Ids, s \in Times }

\* the operations clients may put in a batch: every insert, update and delete
\* of the synced table plus deletes on both tables ("edits"), an insert, an
\* update and a delete of one row plus an insert into the other table
\* ("mixed"), an insert and an update of one row that carries no userId
\* ("owned"), or plain inserts into both tables ("inserts")
OpPool ==
    IF workload = "edits"
    THEN InsertOps({"todos"}) \cup UpdateOps({"todos"}) \cup DeleteOps(Tables)
    ELSE IF workload = "owned"
    THEN { Payload("todos", "insert", "r1", "a", None, s, 1) : s \in Times }
         \cup { Payload("todos", "update", "r1", "b", None, 0, 2) }
    ELSE IF workload = "mixed"
    THEN { Payload(t, "insert", "r1", "a", None, 0, 1) : t \in Tables }
         \cup { Payload("todos", "update", "r1", "b", None, 0, 2),
                Payload("todos", "delete", "r1", None, None, 0, 1) }
    ELSE { Payload(t, "insert", "r1", "a", None, 0, 1) : t \in Tables }

\* ---------------------------------------------------------- server adapter
Key(t, id) == << t, id >>

FindOne(store, t, id) ==
    IF Key(t, id) \in DOMAIN store THEN store[Key(t, id)] ELSE Null

\* the keys a data object carries (a key holding None is absent)
DataFields(d) == [ f \in { k \in DOMAIN d : d[k] # None } |-> d[f] ]

Merge(row, patch) ==
    [ f \in DOMAIN row |-> IF f \in DOMAIN patch THEN patch[f] ELSE row[f] ]

\* insert: the row as given, _isDeleted defaulting to false
AdapterInsert(store, t, data) ==
    LET row == Merge([ id |-> None, text |-> None, userId |-> None,
                       _clientId |-> None, _version |-> 1, _updatedAt |-> 0,
                       _isDeleted |-> FALSE ], data)
    IN  [ ok |-> Key(t, data.id) \notin DOMAIN store,
          store |-> IF Key(t, data.id) \in DOMAIN store THEN store
                    ELSE store @@ (Key(t, data.id) :> row) ]

\* mutation: the SET clause without "_version: _version + 1"
AdapterUpdate_NoBump(store, t, id, data, expectedVersion, clock) ==
    LET k == Key(t, id) IN
    IF k \in DOMAIN store /\ store[k]._version = expectedVersion
    THEN [ ok |-> TRUE,
           store |-> [ store EXCEPT ![k] = [ Merge(@, data) EXCEPT !._updatedAt = clock ] ] ]
    ELSE [ ok |-> FALSE, store |-> store ]

\* update with optimistic locking: SET data, _version = _version + 1,
\* _updatedAt = new Date() WHERE id = id AND _version = expectedVersion
AdapterUpdate(store, t, id, data, expectedVersion, clock) ==
    LET k == Key(t, id) IN
    IF k \in DOMAIN store /\ store[k]._version = expectedVersion
    THEN [ ok |-> TRUE,
           store |-> [ store EXCEPT ![k] =
                         [ Merge(@, data) EXCEPT !._version = store[k]._version + 1,
                                                 !._updatedAt = clock ] ] ]
    ELSE [ ok |-> FALSE, store |-> store ]

\* ------------------------------------------------------ server sync engine
\* mutation: update/delete only checks that the record exists
CheckAccess_ExistsOnly(store, op, userId) ==
    LET tableConfig == config.tables[op.table] IN
    IF ~tableConfig.where THEN TRUE
    ELSE IF op.operation = "insert"
         THEN IF op.userId # None \/ op.data.userId # None
              THEN op.userId = userId \/ op.data.userId = userId
              ELSE TRUE
         ELSE FindOne(store, op.table, op.data.id) # Null

CheckAccess(store, op, userId) ==
    LET tableConfig == config.tables[op.table] IN
    IF ~tableConfig.where THEN TRUE
    ELSE IF op.operation = "insert"
         THEN IF op.userId # None \/ op.data.userId # None
              THEN op.userId = userId \/ op.data.userId = userId
              ELSE TRUE
         ELSE LET record == FindOne(store, op.table, op.data.id)
              IN  record # Null /\ record.userId = userId

\* mutation: last-write-wins with >= (a tie goes to the client)
ResolveConflict_Gte(tableConfig, clientOp, serverData) ==
    LET strategy == IF tableConfig.conflictResolution # None
                    THEN tableConfig.conflictResolution
                    ELSE "last-write-wins"
    IN  CASE strategy = "server-wins" -> "conflict"
          [] strategy = "client-wins" -> "resolved"
          [] strategy = "last-write-wins" ->
               IF clientOp.timestamp >= serverData._updatedAt
               THEN "resolved" ELSE "conflict"
          [] OTHER -> "conflict"

ResolveConflict(tableConfig, clientOp, serverData) ==
    LET strategy == IF tableConfig.conflictResolution # None
                    THEN tableConfig.conflictResolution
                    ELSE "last-write-wins"
    IN  CASE strategy = "server-wins" -> "conflict"
          [] strategy = "client-wins" -> "resolved"
          [] strategy = "last-write-wins" ->
               IF clientOp.timestamp > serverData._updatedAt
               THEN "resolved" ELSE "conflict"
          [] OTHER -> "conflict"

\* what processing one operation does: the store afterwards and where the
\* operation ends up (synced / conflict with serverData / error with message)
Outcome(store, kind, msg, serverData) ==
    [ store |-> store, outcome |-> kind, error |-> msg, serverData |-> serverData ]

\* mutation: insert as upsert, an existing row is overwritten
ApplyInsert_Upsert(store, op, userId) ==
    LET k == Key(op.table, op.data.id)
        bare == [ j \in DOMAIN store \ {k} |-> store[j] ]
        w == AdapterInsert(bare, op.table,
                    [ userId |-> userId, _clientId |-> op.clientId,
                      _version |-> 1, _updatedAt |-> op.timestamp ]
                    @@ DataFields(op.data))
    IN  Outcome(w.store, "synced", None, Null)

ApplyInsert(store, op, userId) ==
    LET existing == FindOne(store, op.table, op.data.id) IN
    IF existing # Null
    THEN Outcome(store, "conflict", None, existing)
    ELSE LET w == AdapterInsert(store, op.table,
                    [ userId |-> userId, _clientId |-> op.clientId,
                      _version |-> 1, _updatedAt |-> op.timestamp ]
                    @@ DataFields(op.data))
         IN  IF w.ok THEN Outcome(w.store, "synced", None, Null)
             ELSE Outcome(store, "error", "duplicate key", Null)

\* mutation: an accepted update leaves _clientId as it was
ApplyUpdate_KeepClientId(store, op, clock) ==
    LET current == FindOne(store, op.table, op.data.id) IN
    IF current = Null
    THEN Outcome(store, "error", "Record not found", Null)
    ELSE IF /\ current._version # op.version - 1
            /\ ResolveConflict(config.tables[op.table], op, current) = "conflict"
         THEN Outcome(store, "conflict", None, current)
         ELSE LET w == AdapterUpdate(store, op.table, op.data.id,
                         [ _updatedAt |-> op.timestamp ] @@ DataFields(op.data),
                         current._version, clock)
              IN  IF w.ok THEN Outcome(w.store, "synced", None, Null)
                  ELSE Outcome(store, "error",
                               "Version conflict or record not found", Null)
\* mutation: the version check compares with op.version (off by one)
ApplyUpdate_OffByOne(store, op, clock) ==
    LET current == FindOne(store, op.table, op.data.id) IN
    IF current = Null
    THEN Outcome(store, "error", "Record not found", Null)
    ELSE IF /\ current._version # op.version
            /\ ResolveConflict(config.tables[op.table], op, current) = "conflict"
         THEN Outcome(store, "conflict", None, current)
         ELSE LET w == AdapterUpdate(store, op.table, op.data.id,
                         [ _clientId |-> op.clientId, _updatedAt |-> op.timestamp ]
                         @@ DataFields(op.data),
                         current._version, clock)
              IN  IF w.ok THEN Outcome(w.store, "synced", None, Null)
                  ELSE Outcome(store, "error",
                               "Version conflict or record not found", Null)

ApplyUpdate(store, op, clock) ==
    LET current == FindOne(store, op.table, op.data.id) IN
    IF current = Null
    THEN Outcome(store, "error", "Record not found", Null)
    ELSE IF /\ current._version # op.version - 1
            /\ ResolveConflict(config.tables[op.table], op, current) = "conflict"
         THEN Outcome(store, "conflict", None, current)
         ELSE LET w == AdapterUpdate(store, op.table, op.data.id,
                         [ _clientId |-> op.clientId, _updatedAt |-> op.timestamp ]
                         @@ DataFields(op.data),
                         current._version, clock)
              IN  IF w.ok THEN Outcome(w.store, "synced", None, Null)
                  ELSE Outcome(store, "error",
                               "Version conflict or record not found", Null)

\* mutation: the row is physically removed
ApplyDelete_Hard(store, op, clock) ==
    Outcome([ j \in DOMAIN store \ { Key(op.table, op.data.id) } |-> store[j] ],
            "synced", None, Null)

\* mutation: a row that is already tombstoned is left alone
ApplyDelete_SkipDeleted(store, op, clock) ==
    LET current == FindOne(store, op.table, op.data.id) IN
    IF current # Null /\ ~current._isDeleted
    THEN LET w == AdapterUpdate(store, op.table, op.data.id,
                    [ _isDeleted |-> TRUE, _updatedAt |-> op.timestamp ],
                    current._version, clock)
         IN  IF w.ok THEN Outcome(w.store, "synced", None, Null)
             ELSE Outcome(store, "error",
                          "Version conflict or record not found", Null)
    ELSE Outcome(store, "synced", None, Null)

ApplyDelete(store, op, clock) ==
    LET current == FindOne(store, op.table, op.data.id) IN
    IF current # Null
    THEN LET w == AdapterUpdate(store, op.table, op.data.id,
                    [ _isDeleted |-> TRUE, _updatedAt |-> op.timestamp ],
                    current._version, clock)
         IN  IF w.ok THEN Outcome(w.store, "synced", None, Null)
             ELSE Outcome(store, "error",
                          "Version conflict or record not found", Null)
    ELSE Outcome(store, "synced", None, Null)

\* one iteration of push's loop over the batch
ApplyOp(store, op, userId, clock) ==
    IF op.table \notin DOMAIN config.tables
    THEN Outcome(store, "error", "Table not configured for sync", Null)
    ELSE IF ~CheckAccess(store, op, userId)
    THEN Outcome(store, "error", "Access denied", Null)
    ELSE CASE op.operation = "insert" -> ApplyInsert(store, op, userId)
           [] op.operation = "update" -> ApplyUpdate(store, op, clock)
           [] op.operation = "delete" -> ApplyDelete(store, op, clock)

\* what an adapter call may throw: an Error with a message, or something
\* that is not an Error
AdapterFailures ==
    { [ isError |-> TRUE, message |-> "connection lost" ],
      [ isError |-> FALSE, message |-> None ] }

\* the catch clause's message
ErrorMessage(e) == IF e.isError THEN e.message ELSE "Unknown error"

\* the adapter calls one iteration makes, as places where it can throw:
\* the first findOne (in checkAccess or at the head of the case), the write
\* (insert / update), logSyncOperation after the write
ThrowPoints(store, op, userId, clock) ==
    LET configured == op.table \in DOMAIN config.tables
        checksRow == configured /\ config.tables[op.table].where
                                /\ op.operation # "insert"
        reachesCase == configured /\ CheckAccess(store, op, userId)
        r == ApplyOp(store, op, userId, clock)
        writes == /\ reachesCase
                  /\ r.outcome = "synced"
                  /\ ~( op.operation = "delete"
                        /\ FindOne(store, op.table, op.data.id) = Null )
    IN  { pt \in { "findOne" } : checksRow \/ reachesCase }
        \cup { pt \in { "write" } : writes }
        \cup { pt \in { "log" } : reachesCase /\ r.outcome = "synced" }

\* mutation: the failure is not recorded anywhere
ApplyOpThrows_Dropped(store, op, userId, clock, point, e) ==
    Outcome(IF point = "log" THEN ApplyOp(store, op, userId, clock).store ELSE store,
            "dropped", ErrorMessage(e), Null)

\* one iteration of push's loop in which the adapter throws at the given
\* call: the catch clause records the operation in errors; a write that was
\* made before logSyncOperation threw stays
ApplyOpThrows(store, op, userId, clock, point, e) ==
    Outcome(IF point = "log" THEN ApplyOp(store, op, userId, clock).store ELSE store,
            "error", ErrorMessage(e), Null)

\* ---------------------------------------------------------- pull / changes
\* (ChangeMatches_NoExclude is the mutation that forgets the clientId condition)
\* DrizzleServerAdapter.getChangesSince's WHERE clause.  and(...) joins the
\* conditions with " and " inside one pair of parentheses and the clientId
\* condition is the unparenthesised fragment "_client_id != X OR _client_id
\* IS NULL", so SQL reads it as
\*   (_updated_at > ts AND _client_id != X) OR (_client_id IS NULL AND filter)
ChangeMatches_NoExclude(row, timestamp, userId, excludeClientId) ==
    LET newer == row._updatedAt > timestamp
        mine == IF userId # None /\ config.getFilter
                THEN row.userId = userId ELSE TRUE
    IN  newer /\ mine

ChangeMatches(row, timestamp, userId, excludeClientId) ==
    LET newer == row._updatedAt > timestamp
        other == row._clientId # None /\ row._clientId # excludeClientId
        isNull == row._clientId = None
        mine == IF userId # None /\ config.getFilter
                THEN row.userId = userId ELSE TRUE
    IN  IF excludeClientId # None
        THEN (newer /\ other) \/ (isNull /\ mine)
        ELSE newer /\ mine

ChangeOp(t, row) ==
    [ id |-> 0, table |-> t,
      operation |-> IF row._isDeleted THEN "delete" ELSE "update",
      data |-> row, timestamp |-> row._updatedAt,
      clientId |-> IF row._clientId # None THEN row._clientId ELSE "server",
      version |-> row._version, userId |-> row.userId ]

\* the rows of a set as a sequence ordered by _updatedAt (ORDER BY)
RECURSIVE OrderByUpdatedAt(_)
OrderByUpdatedAt(S) ==
    IF S = {} THEN << >>
    ELSE LET r == CHOOSE x \in S : \A y \in S : x._updatedAt <= y._updatedAt
         IN  << r >> \o OrderByUpdatedAt(S \ {r})

GetChangesSince(store, t, timestamp, userId, excludeClientId) ==
    LET matching == { store[k] : k \in { j \in DOMAIN store :
                        /\ j[1] = t
                        /\ ChangeMatches(store[j], timestamp, userId, excludeClientId) } }
        ordered == OrderByUpdatedAt(matching)
    IN  [ i \in 1 .. Len(ordered) |-> ChangeOp(t, ordered[i]) ]

\* Array.prototype.sort((a, b) => a.timestamp - b.timestamp): stable
RECURSIVE SortByTimestamp(_)
SortByTimestamp(ops) ==
    IF Len(ops) <= 1 THEN ops
    ELSE LET rest == SortByTimestamp(Tail(ops))
             before == SelectSeq(rest, LAMBDA o : o.timestamp < Head(ops).timestamp)
             after == SelectSeq(rest, LAMBDA o : o.timestamp >= Head(ops).timestamp)
         IN  before \o << Head(ops) >> \o after

\* Object.entries(config.tables): the tables in configuration order
TableOrder == << "todos", "notes" >>
ConfiguredTables == SelectSeq(TableOrder, LAMBDA t : t \in DOMAIN config.tables)

\* a table's transform: the projection that drops the field the clients
\* must not see (text stands for it)
Transform(data) == [ data EXCEPT !.text = None ]

\* pull's "Apply transformations" loop over the changes of one table
Transformed(tableConfig, changes) ==
    [ i \in 1 .. Len(changes) |->
        [ changes[i] EXCEPT !.data = IF tableConfig.transform
                                     THEN Transform(@) ELSE @ ] ]

RECURSIVE PullTables(_, _, _, _, _)
PullTables(ts, store, lastSync, clientId, userId) ==
    IF ts = << >> THEN << >>
    ELSE Transformed(config.tables[Head(ts)],
                     GetChangesSince(store, Head(ts), lastSync, userId, clientId))
         \o PullTables(Tail(ts), store, lastSync, clientId, userId)

PullResult(store, lastSync, clientId, userId) ==
    SortByTimestamp(PullTables(ConfiguredTables, store, lastSync, clientId, userId))

\* --------------------------------------------------------- realtime server
TablesOf(operations) == { operations[i].table : i \in 1 .. Len(operations) }

\* mutation: the originator is not skipped
SkipsOrigin_Never(connection, excludeClientId) == FALSE

\* broadcast: "Skip the client that originated the operations"
SkipsOrigin(connection, excludeClientId) ==
    excludeClientId # None /\ connection.clientId = excludeClientId

\* mutation: the batch is forwarded unfiltered
RelevantOps_All(connection, operations) == operations

\* the operations of a batch a connection is subscribed to
RelevantOps(connection, operations) ==
    IF connection.tables = {} THEN operations
    ELSE SelectSeq(operations, LAMBDA op : op.table \in connection.tables)

OperationsEvent(connection, relevantOps, tables) ==
    [ to |-> connection.id, type |-> "operations",
      operations |-> relevantOps, tables |-> tables ]

\* sendToConnection's effect on the registry: lastActivity of the receivers
Touch(conns, ids, clock) ==
    [ i \in 1 .. Len(conns) |->
        IF conns[i].id \in ids THEN [ conns[i] EXCEPT !.lastActivity = clock ]
        ELSE conns[i] ]

Receivers(events) == { events[i].to : i \in 1 .. Len(events) }

Broadcast(conns, operations, excludeClientId) ==
    IF ~config.realtime.enabled \/ Len(operations) = 0 THEN << >>
    ELSE LET targets == SelectSeq(conns, LAMBDA c :
                            /\ ~SkipsOrigin(c, excludeClientId)
                            /\ Len(RelevantOps(c, operations)) > 0)
         IN  [ i \in 1 .. Len(targets) |->
                 OperationsEvent(targets[i], RelevantOps(targets[i], operations),
                                 TablesOf(operations)) ]

GetUserConnections(conns, ucs, userId) ==
    SelectSeq(conns, LAMBDA c : \E i \in 1 .. Len(ucs[userId]) : ucs[userId][i] = c.id)

SendToUserEvents(conns, ucs, userId, operations) ==
    LET targets == SelectSeq(GetUserConnections(conns, ucs, userId),
                             LAMBDA c : Len(RelevantOps(c, operations)) > 0)
    IN  [ i \in 1 .. Len(targets) |->
            OperationsEvent(targets[i], RelevantOps(targets[i], operations),
                            TablesOf(RelevantOps(targets[i], operations))) ]

RemoveConnection(conns, ucs, connectionId) ==
    IF \E i \in 1 .. Len(conns) : conns[i].id = connectionId
    THEN LET c == CHOOSE x \in { conns[i] : i \in 1 .. Len(conns) } : x.id = connectionId
         IN  [ connections |-> SelectSeq(conns, LAMBDA x : x.id # connectionId),
               userConnections |->
                  [ ucs EXCEPT ![c.userId] = SelectSeq(@, LAMBDA i : i # connectionId) ] ]
    ELSE [ connections |-> conns, userConnections |-> ucs ]

AllowedTables(tables) ==
    IF config.realtime.allowedTables # {}
    THEN tables \cap config.realtime.allowedTables
    ELSE tables

\* ----------------------------------------------------------------- actions
NoArgs == [ lastSync |-> 0, clientId |-> None, userId |-> None ]
NoState == << None, None >>
NoOp == Payload(None, None, None, None, None, 0, 0)
NoThrow == [ point |-> None, isError |-> FALSE, message |-> None ]
EmptyStore == [ k \in {} |-> Null ]

\* a call starts from a clean slate: the result of the previous call is gone
ClearPushResult ==
    /\ pushClient' = None /\ pushUser' = None /\ nOps' = 0 /\ opRef' = NoOp
    /\ syncedOps' = << >> /\ conflicts' = << >> /\ errors' = << >> /\ logged' = << >>
    /\ thrown' = NoThrow
ClearPullResult == pulled' = << >> /\ pullArgs' = NoArgs

\* the server clock advances
Tick ==
    /\ now < MaxTime
    /\ now' = now + 1
    /\ UNCHANGED << clientVars, replicas, inflight, fixedVars, rows, pushVars, stateUpdated, pulled, pullArgs,
                    rtVars, delivered >>

\* push(operations, userId) is called with a batch from one client
StartPush ==
    /\ pc = "idle"
    /\ \E c \in Clients, u \in Users :
         /\ pushClient' = c
         /\ pushUser' = u
    /\ pc' = "processing"
    /\ nOps' = 0
    /\ opRef' = NoOp
    /\ syncedOps' = << >> /\ conflicts' = << >> /\ errors' = << >> /\ logged' = << >>
    /\ thrown' = NoThrow
    /\ stateUpdated' = NoState
    /\ delivered' = << >>
    /\ ClearPullResult
    /\ UNCHANGED << clientVars, replicas, inflight, fixedVars, rows, now, rtVars >>

\* one iteration of the loop over the batch: the next operation is processed
ProcessOp ==
    /\ pc = "processing"
    /\ nOps < batchSize
    /\ \E p \in OpPool :
         LET op == [ p EXCEPT !.id = nOps + 1, !.clientId = pushClient ]
             r == ApplyOp(rows, op, pushUser, now)
         IN  /\ \A k \in DOMAIN r.store : r.store[k]._version <= MaxVersion
             /\ rows' = r.store
             /\ opRef' = op
             /\ syncedOps' = IF r.outcome = "synced"
                             THEN Append(syncedOps, op) ELSE syncedOps
             /\ logged' = IF r.outcome = "synced"
                          THEN Append(logged, op.id) ELSE logged
             /\ conflicts' = IF r.outcome = "conflict"
                             THEN Append(conflicts, [ operation |-> op,
                                                      serverData |-> r.serverData,
                                                      clientData |-> op.data ])
                             ELSE conflicts
             /\ errors' = IF r.outcome = "error"
                          THEN Append(errors, [ id |-> op.id, error |-> r.error ])
                          ELSE errors
    /\ thrown' = NoThrow
    /\ nOps' = nOps + 1
    /\ UNCHANGED << clientVars, replicas, inflight, fixedVars, now, pc, pushClient, pushUser, stateUpdated,
                    pulled, pullArgs, rtVars, delivered >>

\* one iteration of the loop in which an adapter call throws
ProcessOpThrows ==
    /\ pc = "processing"
    /\ nOps < batchSize
    /\ \E p \in OpPool, e \in AdapterFailures :
         LET op == [ p EXCEPT !.id = nOps + 1, !.clientId = pushClient ] IN
         \E point \in ThrowPoints(rows, op, pushUser, now) :
           LET r == ApplyOpThrows(rows, op, pushUser, now, point, e) IN
             /\ \A k \in DOMAIN r.store : r.store[k]._version <= MaxVersion
             /\ rows' = r.store
             /\ opRef' = op
             /\ thrown' = [ point |-> point, isError |-> e.isError,
                            message |-> e.message ]
             /\ syncedOps' = IF r.outcome = "synced"
                             THEN Append(syncedOps, op) ELSE syncedOps
             /\ logged' = logged
             /\ conflicts' = IF r.outcome = "conflict"
                             THEN Append(conflicts, [ operation |-> op,
                                                      serverData |-> r.serverData,
                                                      clientData |-> op.data ])
                             ELSE conflicts
             /\ errors' = IF r.outcome = "error"
                          THEN Append(errors, [ id |-> op.id, error |-> r.error ])
                          ELSE errors
    /\ nOps' = nOps + 1
    /\ UNCHANGED << clientVars, replicas, inflight, fixedVars, now, pc, pushClient, pushUser, stateUpdated,
                    pulled, pullArgs, rtVars, delivered >>

\* after the loop: client state, broadcast of the synced operations, return
\* (the result goes to the caller; push's locals are gone after the return)
FinishPush ==
    /\ pc = "processing"
    /\ pc' = "idle"
    /\ stateUpdated' = IF nOps > 0 THEN << pushClient, pushUser >> ELSE stateUpdated
    /\ LET events == IF config.realtime.configured /\ Len(syncedOps) > 0
                     THEN Broadcast(connections, syncedOps, pushClient)
                     ELSE << >>
       IN  /\ delivered' = events
           /\ connections' = Touch(connections, Receivers(events), now)
    /\ ClearPushResult
    /\ UNCHANGED << clientVars, replicas, inflight, fixedVars, rows, now, pulled, pullArgs, userConnections, nextConn >>

\* pull(lastSync, clientId, userId)
Pull ==
    /\ pc = "idle"
    /\ \E lastSync \in Times, c \in Clients, u \in Users :
         /\ pulled' = PullResult(rows, lastSync, c, u)
         /\ pullArgs' = [ lastSync |-> lastSync, clientId |-> c, userId |-> u ]
         /\ stateUpdated' = << c, u >>
    /\ ClearPushResult
    /\ delivered' = << >>
    /\ UNCHANGED << clientVars, replicas, inflight, fixedVars, rows, now, pc, rtVars >>

\* ---------------------------------------------- push calls side by side
\* a push call of one operation that runs beside the push call of another
\* client (no transaction, or one that reads committed rows): where the call
\* is, what it was called with, the row its findOne returned, how its
\* operation ended
NoCall ==
    [ pc |-> "none", user |-> None, op |-> NoOp, current |-> Null,
      outcome |-> None, error |-> None ]
NoPushes == [ c \in Clients |-> NoCall ]

\* the operations pushed side by side: updates and deletes of one row
EditPool ==
    { p \in UpdateOps({"todos"}) : p.data.text = "b" }
    \cup { p \in DeleteOps({"todos"}) : p.timestamp = 0 }

Ended(call, outcome, error) ==
    [ call EXCEPT !.pc = "done", !.outcome = outcome, !.error = error ]

\* the update and delete cases up to the write: findOne, the version check
\* and the conflict policy
FindCurrent(store, call) ==
    LET current == FindOne(store, call.op.table, call.op.data.id) IN
    IF call.op.operation = "update"
    THEN IF current = Null THEN Ended(call, "error", "Record not found")
         ELSE IF /\ current._version # call.op.version - 1
                 /\ ResolveConflict(config.tables[call.op.table], call.op, current)
                      = "conflict"
         THEN Ended([ call EXCEPT !.current = current ], "conflict", None)
         ELSE [ call EXCEPT !.pc = "write", !.current = current ]
    ELSE IF current # Null
         THEN [ call EXCEPT !.pc = "write", !.current = current ]
         ELSE Ended(call, "synced", None)

\* the data handed to adapter.update by the update case and the delete case
WriteData(op) ==
    IF op.operation = "update"
    THEN [ _clientId |-> op.clientId, _updatedAt |-> op.timestamp ]
         @@ DataFields(op.data)
    ELSE [ _isDeleted |-> TRUE, _updatedAt |-> op.timestamp ]

\* mutation: the write is not guarded by the version the call has read
WriteCurrent_Unversioned(store, call, clock) ==
    LET k == Key(call.op.table, call.op.data.id)
        w == AdapterUpdate(store, call.op.table, call.op.data.id, WriteData(call.op),
                           store[k]._version, clock)
    IN  [ store |-> w.store, call |-> Ended(call, "synced", None) ]

\* adapter.update(table, id, data, current._version) and what follows: the
\* operation is synced, or the adapter throws and the catch clause reports it
WriteCurrent(store, call, clock) ==
    LET w == AdapterUpdate(store, call.op.table, call.op.data.id, WriteData(call.op),
                           call.current._version, clock)
    IN  IF w.ok
        THEN [ store |-> w.store, call |-> Ended(call, "synced", None) ]
        ELSE [ store |-> store,
               call |-> Ended(call, "error", "Version conflict or record not found") ]

\* push([op], "u1") is called by a client: the loop reaches its first read
PushStarts ==
    /\ \E c \in Clients, p \in EditPool :
         /\ inflight[c].pc = "none"
         /\ inflight' = [ inflight EXCEPT ![c] =
                [ NoCall EXCEPT !.pc = IF config.tables[p.table].where
                                       THEN "access" ELSE "find",
                                !.user = "u1",
                                !.op = [ p EXCEPT !.id = 1, !.clientId = c ] ] ]
    /\ UNCHANGED << clientVars, replicas, fixedVars, rows, now, pushVars, stateUpdated, pulled,
                    pullArgs, rtVars, delivered >>

\* checkAccess's findOne returns
PushChecksAccess ==
    /\ \E c \in Clients :
         /\ inflight[c].pc = "access"
         /\ inflight' = [ inflight EXCEPT ![c] =
                IF CheckAccess(rows, @.op, @.user)
                THEN [ @ EXCEPT !.pc = "find" ]
                ELSE Ended(@, "error", "Access denied") ]
    /\ UNCHANGED << clientVars, replicas, fixedVars, rows, now, pushVars, stateUpdated, pulled,
                    pullArgs, rtVars, delivered >>

\* the findOne of the update or delete case returns
PushFindsOne ==
    /\ \E c \in Clients :
         /\ inflight[c].pc = "find"
         /\ inflight' = [ inflight EXCEPT ![c] = FindCurrent(rows, @) ]
    /\ UNCHANGED << clientVars, replicas, fixedVars, rows, now, pushVars, stateUpdated, pulled,
                    pullArgs, rtVars, delivered >>

\* adapter.update returns or throws
PushWrites ==
    /\ \E c \in Clients :
         /\ inflight[c].pc = "write"
         /\ LET w == WriteCurrent(rows, inflight[c], now) IN
            /\ \A k \in DOMAIN w.store : w.store[k]._version <= MaxVersion
            /\ rows' = w.store
            /\ inflight' = [ inflight EXCEPT ![c] = w.call ]
    /\ UNCHANGED << clientVars, replicas, fixedVars, now, pushVars, stateUpdated, pulled,
                    pullArgs, rtVars, delivered >>

\* push returns its result to the caller
PushEnds ==
    /\ \E c \in Clients :
         /\ inflight[c].pc = "done"
         /\ inflight' = [ inflight EXCEPT ![c] = NoCall ]
    /\ UNCHANGED << clientVars, replicas, fixedVars, rows, now, pushVars, stateUpdated, pulled,
                    pullArgs, rtVars, delivered >>
\* the user a replica is signed in as when it opens its stream
Owner(c) == IF c = "c1" THEN "u1" ELSE "u2"

\* createConnection evicting the user's newest stream instead of the oldest
CreateConnection_EvictNewest ==
    /\ pc = "idle"
    /\ config.realtime.configured
    /\ config.realtime.enabled
    /\ nextConn <= MaxConnIds
    /\ \E c \in Clients, tables \in SUBSET Tables :
         LET u == Owner(c)
             userConns == userConnections[u]
             evicted == IF Len(userConns) >= config.realtime.maxConnectionsPerUser
                           /\ Len(userConns) > 0
                        THEN RemoveConnection(connections, userConnections, userConns[Len(userConns)])
                        ELSE [ connections |-> connections,
                               userConnections |-> userConnections ]
             connection == [ id |-> nextConn, userId |-> u, clientId |-> c,
                             tables |-> AllowedTables(tables),
                             createdAt |-> now, lastActivity |-> now ]
         IN  /\ connections' = Append(evicted.connections, connection)
             /\ userConnections' = [ evicted.userConnections EXCEPT
                                       ![u] = Append(@, nextConn) ]
             /\ delivered' = << [ to |-> nextConn, type |-> "connected",
                                  operations |-> << >>,
                                  tables |-> AllowedTables(tables) ] >>
    /\ nextConn' = nextConn + 1
    /\ ClearPushResult
    /\ ClearPullResult
    /\ stateUpdated' = NoState
    /\ UNCHANGED << clientVars, replicas, inflight, fixedVars, rows, now, pc >>

\* GET on the realtime endpoint: RealtimeServer.createConnection
CreateConnection ==
    /\ pc = "idle"
    /\ config.realtime.configured
    /\ config.realtime.enabled
    /\ nextConn <= MaxConnIds
    /\ \E c \in Clients, tables \in SUBSET Tables :
         LET u == Owner(c)
             userConns == userConnections[u]
             evicted == IF Len(userConns) >= config.realtime.maxConnectionsPerUser
                           /\ Len(userConns) > 0
                        THEN RemoveConnection(connections, userConnections, Head(userConns))
                        ELSE [ connections |-> connections,
                               userConnections |-> userConnections ]
             connection == [ id |-> nextConn, userId |-> u, clientId |-> c,
                             tables |-> AllowedTables(tables),
                             createdAt |-> now, lastActivity |-> now ]
         IN  /\ connections' = Append(evicted.connections, connection)
             /\ userConnections' = [ evicted.userConnections EXCEPT
                                       ![u] = Append(@, nextConn) ]
             /\ delivered' = << [ to |-> nextConn, type |-> "connected",
                                  operations |-> << >>,
                                  tables |-> AllowedTables(tables) ] >>
    /\ nextConn' = nextConn + 1
    /\ ClearPushResult
    /\ ClearPullResult
    /\ stateUpdated' = NoState
    /\ UNCHANGED << clientVars, replicas, inflight, fixedVars, rows, now, pc >>

\* the peer cancels its stream: removeConnection
CancelConnection ==
    /\ pc = "idle"
    /\ \E i \in 1 .. Len(connections) :
         LET r == RemoveConnection(connections, userConnections, connections[i].id)
         IN  /\ connections' = r.connections
             /\ userConnections' = r.userConnections
    /\ delivered' = << >>
    /\ ClearPushResult
    /\ ClearPullResult
    /\ stateUpdated' = NoState
    /\ UNCHANGED << clientVars, replicas, inflight, fixedVars, rows, now, pc, nextConn >>

\* time passes on the server while streams are open (one step beyond the
\* instants operations are stamped with)
TimePasses ==
    /\ pc = "idle"
    /\ now <= MaxTime
    /\ now' = now + 1
    /\ UNCHANGED << clientVars, replicas, inflight, fixedVars, rows, pushVars, stateUpdated,
                    pulled, pullArgs, rtVars, delivered >>

HeartbeatEvent(connectionId) ==
    [ to |-> connectionId, type |-> "heartbeat", operations |-> << >>, tables |-> {} ]

RECURSIVE RemoveConnections(_, _, _)
RemoveConnections(conns, ucs, ids) ==
    IF ids = {} THEN [ connections |-> conns, userConnections |-> ucs ]
    ELSE LET id == CHOOSE x \in ids : TRUE
             r == RemoveConnection(conns, ucs, id)
         IN  RemoveConnections(r.connections, r.userConnections, ids \ {id})

\* the heartbeat interval fires: a heartbeat is sent to every connection (a
\* send refreshes lastActivity; a send that throws removes the connection);
\* the cleanup of stale connections, entered when connectionTimeout > 0,
\* calls the Map `this.connections` as a function and throws a TypeError
\* before it looks at any connection
HeartbeatTick ==
    /\ pc = "idle"
    /\ config.realtime.configured
    /\ config.realtime.enabled
    /\ config.realtime.heartbeatInterval > 0
    /\ \E failed \in SUBSET { connections[i].id : i \in 1 .. Len(connections) } :
         LET sent == SelectSeq(connections, LAMBDA c : c.id \notin failed)
             r == RemoveConnections(Touch(connections, Receivers(
                                        [ i \in 1 .. Len(sent) |-> HeartbeatEvent(sent[i].id) ]),
                                          now),
                                    userConnections, failed)
         IN  /\ delivered' = [ i \in 1 .. Len(sent) |-> HeartbeatEvent(sent[i].id) ]
             /\ connections' = r.connections
             /\ userConnections' = r.userConnections
             /\ thrown' = IF config.realtime.connectionTimeout > 0
                          THEN [ point |-> "heartbeat", isError |-> TRUE,
                                 message |-> "this.connections is not a function" ]
                          ELSE NoThrow
    /\ pushClient' = None /\ pushUser' = None /\ nOps' = 0 /\ opRef' = NoOp
    /\ syncedOps' = << >> /\ conflicts' = << >> /\ errors' = << >> /\ logged' = << >>
    /\ ClearPullResult
    /\ stateUpdated' = NoState
    /\ UNCHANGED << clientVars, replicas, inflight, fixedVars, rows, now, pc, nextConn >>
\* the batches handed to sendToUser: one or two operations written by the
\* server itself
Batches ==
    { << p >> : p \in OpPool } \cup { << p, q >> : p \in OpPool, q \in OpPool }

Stamp(batch, c) ==
    [ i \in 1 .. Len(batch) |-> [ batch[i] EXCEPT !.id = i, !.clientId = c ] ]

\* RealtimeServer.sendToUser(userId, operations)
SendToUser ==
    /\ pc = "idle"
    /\ config.realtime.configured
    /\ \E u \in Users, batch \in Batches :
         LET events == SendToUserEvents(connections, userConnections, u,
                                        Stamp(batch, "server"))
         IN  /\ delivered' = events
             /\ connections' = Touch(connections, Receivers(events), now)
    /\ ClearPushResult
    /\ ClearPullResult
    /\ stateUpdated' = NoState
    /\ UNCHANGED << clientVars, replicas, inflight, fixedVars, rows, now, pc, userConnections, nextConn >>

\* --------------------------------------------------------- realtime client
Min(a, b) == IF a <= b THEN a ELSE b

\* reconnectTimer is null, or a pending timeout with its delay
NoTimer == -1

\* a RealtimeClient after construction
NewRealtimeClient ==
    [ enabled |-> TRUE, eventSource |-> "null", status |-> "disconnected",
      reconnectAttempts |-> 0, reconnectTimer |-> NoTimer, heartbeatTimer |-> FALSE,
      heard |-> FALSE ]

SetStatus(c, status) == [ c EXCEPT !.status = status ]

ClearTimers(c) ==
    [ c EXCEPT !.reconnectTimer = NoTimer, !.heartbeatTimer = FALSE, !.heard = FALSE ]

\* eventSource.close(); eventSource = null
CloseStream(c) == [ c EXCEPT !.eventSource = "null" ]

Disconnect(c) == SetStatus(CloseStream(ClearTimers(c)), "disconnected")

\* connect(): a disabled client only warns; an open stream is dropped first
Connect(c) ==
    IF ~c.enabled THEN c
    ELSE LET d == IF c.eventSource # "null" THEN Disconnect(c) ELSE c
         IN  [ SetStatus(d, "connecting") EXCEPT !.eventSource = "connecting" ]

\* mutation: the delay is not capped by maxReconnectInterval
ReconnectDelay_NoCap(attempts) ==
    rcConfig.reconnectInterval * (2 ^ attempts)

\* Math.min(reconnectInterval * Math.pow(2, reconnectAttempts), maxReconnectInterval)
ReconnectDelay(attempts) ==
    Min(rcConfig.reconnectInterval * (2 ^ attempts), rcConfig.maxReconnectInterval)

ScheduleReconnect(c) ==
    [ SetStatus(c, "connecting") EXCEPT
        !.reconnectTimer = ReconnectDelay(c.reconnectAttempts),
        !.reconnectAttempts = c.reconnectAttempts + 1 ]

\* mutation: the timers are left armed when the client gives up
HandleError_KeepTimers(c) ==
    LET d == CloseStream(c) IN
    IF d.reconnectAttempts < rcConfig.maxReconnectAttempts
    THEN ScheduleReconnect(d)
    ELSE SetStatus(d, "fallback")

HandleError(c) ==
    LET d == CloseStream(ClearTimers(c)) IN
    IF d.reconnectAttempts < rcConfig.maxReconnectAttempts
    THEN ScheduleReconnect(d)
    ELSE SetStatus(d, "fallback")

\* the delays scheduled in the current run of failures, after an error
AfterError(c) ==
    IF c.reconnectTimer # NoTimer THEN Append(delays, c.reconnectTimer) ELSE delays

\* the application calls connect() (RealtimeClient.init does when enabled)
RcConnect ==
    /\ realtimeClient' = Connect(realtimeClient)
    /\ rcCall' = "connect"
    /\ UNCHANGED << serverVars, seVars, rcConfig, delays >>

\* reconnect(): disconnect, reset the attempt counter, connect
RcReconnect ==
    /\ realtimeClient' = Connect([ Disconnect(realtimeClient) EXCEPT
                                     !.reconnectAttempts = 0 ])
    /\ delays' = << >>
    /\ rcCall' = "reconnect"
    /\ UNCHANGED << serverVars, seVars, rcConfig >>

\* enable(): set the flag and connect
RcEnable ==
    /\ realtimeClient' = Connect([ realtimeClient EXCEPT !.enabled = TRUE ])
    /\ rcCall' = "enable"
    /\ UNCHANGED << serverVars, seVars, rcConfig, delays >>

\* disable(): clear the flag and disconnect
RcDisable ==
    /\ realtimeClient' = Disconnect([ realtimeClient EXCEPT !.enabled = FALSE ])
    /\ rcCall' = "disable"
    /\ UNCHANGED << serverVars, seVars, rcConfig, delays >>

\* eventSource.onopen
StreamOpens ==
    /\ realtimeClient.eventSource = "connecting"
    /\ realtimeClient' = [ SetStatus(realtimeClient, "connected") EXCEPT
                             !.eventSource = "open",
                             !.reconnectAttempts = 0,
                             !.heartbeatTimer = TRUE,
                             !.heard = FALSE ]
    /\ delays' = << >>
    /\ rcCall' = "open"
    /\ UNCHANGED << serverVars, seVars, rcConfig >>

\* eventSource.onerror: the stream failed to open or broke
StreamError ==
    /\ realtimeClient.eventSource # "null"
    /\ realtimeClient' = HandleError(realtimeClient)
    /\ delays' = AfterError(realtimeClient')
    /\ rcCall' = "error"
    /\ UNCHANGED << serverVars, seVars, rcConfig >>

\* the types of event a stream carries: the server's own (connected,
\* operations, heartbeat) and unnamed messages
EventTypes == { "connected", "operations", "heartbeat", "message" }

\* resetHeartbeatMonitor(): the watchdog is cleared and armed afresh
ResetHeartbeatMonitor(c) == [ c EXCEPT !.heartbeatTimer = TRUE, !.heard = FALSE ]

\* what the listeners of connect() do with an event: the operations and
\* heartbeat listeners reset the watchdog; onmessage (handleMessage) does
\* not, and no listener is registered for connected
OnEvent(c, type) ==
    IF type \in { "operations", "heartbeat" } THEN ResetHeartbeatMonitor(c)
    ELSE [ c EXCEPT !.heard = TRUE ]

\* an event comes in on the open stream
StreamEvent ==
    /\ realtimeClient.eventSource = "open"
    /\ \E type \in EventTypes :
         /\ realtimeClient' = OnEvent(realtimeClient, type)
         /\ rcCall' = type
    /\ UNCHANGED << serverVars, seVars, rcConfig, delays >>

\* the heartbeat watchdog expires: handleError(new Error('Heartbeat timeout'))
HeartbeatTimeout ==
    /\ realtimeClient.heartbeatTimer
    /\ realtimeClient' = HandleError(realtimeClient)
    /\ delays' = AfterError(realtimeClient')
    /\ rcCall' = "watchdog"
    /\ UNCHANGED << serverVars, seVars, rcConfig >>

\* the reconnect timer fires: connect()
ReconnectTimerFires ==
    /\ realtimeClient.reconnectTimer # NoTimer
    /\ realtimeClient' = Connect([ realtimeClient EXCEPT !.reconnectTimer = NoTimer ])
    /\ rcCall' = "timer"
    /\ UNCHANGED << serverVars, seVars, rcConfig, delays >>

\* ------------------------------------------------------ client sync engine
\* the single client row the application edits: absent, the client's own
\* data written by operation op, the server's data carried by the conflict
\* for operation op, or data written by another client
NoRow == [ src |-> "none", op |-> 0 ]
ClientData(id) == [ src |-> "client", op |-> id ]
ServerData(id) == [ src |-> "server", op |-> id ]
RemoteData == [ src |-> "remote", op |-> 0 ]

\* SyncEngine's fields after construction
NewSyncEngine ==
    [ isInitialized |-> FALSE, isSyncing |-> FALSE, syncStatus |-> "idle",
      syncTimer |-> FALSE, pendingOps |-> << >>, conflicts |-> << >> ]

\* the sync() calls and init() calls that are awaiting the remote, and the
\* next fresh operation id (crypto.randomUUID())
IdleCycle == [ pc |-> "idle", batch |-> << >>, rest |-> << >> ]
NoCalls == [ syncs |-> EmptyBag, inits |-> << >>, nextOpId |-> 1, forced |-> 0 ]

\* what the last step was and did (history): the call or event, whether the
\* call was sync(true), how the call ended, the callbacks and remote calls it
\* made, the init() call it belongs to, the push result it processed, the operations whose resolved
\* operation it applied, and the operations reported in a conflict so far
NoTrace ==
    [ call |-> None, nth |-> 0, force |-> FALSE, ended |-> None, out |-> << >>,
      result |-> << >>, resolved |-> {}, conflicted |-> {} ]
Traced(call, nth, force, ended, out) ==
    [ call |-> call, nth |-> nth, force |-> force, ended |-> ended, out |-> out,
      result |-> << >>, resolved |-> {}, conflicted |-> trace.conflicted ]

Range(seq) == { seq[i] : i \in 1 .. Len(seq) }
Take(seq, n) == SubSeq(seq, 1, Min(n, Len(seq)))
Drop(seq, n) == SubSeq(seq, Min(n, Len(seq)) + 1, Len(seq))
OpIds(seq) == [ i \in 1 .. Len(seq) |-> seq[i].id ]
InQueue(queue, id) == \E i \in 1 .. Len(queue) : queue[i].id = id
QueueEntry(queue, id) == queue[CHOOSE i \in 1 .. Len(queue) : queue[i].id = id]

\* IndexedDBAdapter: the queue store
AddToQueue(queue, id) == Append(queue, [ id |-> id, status |-> "pending", error |-> None ])
\* mutation: the snapshot misses the operation queued last
GetPending_DropNewest(queue) ==
    SelectSeq(SubSeq(queue, 1, Len(queue) - 1), LAMBDA q : q.status = "pending")
GetPending(queue) == SelectSeq(queue, LAMBDA q : q.status = "pending")
RemoveFromQueue(queue, ids) == SelectSeq(queue, LAMBDA q : q.id \notin ids)
\* mutation: an operation the server refused is dropped from the queue
UpdateQueueStatus_Remove(queue, ids, status, error) ==
    SelectSeq(queue, LAMBDA q : q.id \notin ids)
\* updateQueueStatus for each of the ids: an entry that is gone is skipped
UpdateQueueStatus(queue, ids, status, error) ==
    [ i \in 1 .. Len(queue) |->
        IF queue[i].id \in ids
        THEN [ queue[i] EXCEPT !.status = status, !.error = error ]
        ELSE queue[i] ]

\* push(): the next remote.push(batch) of the pending snapshot, or, after the
\* last batch, pull(): remote.pull(lastSync, clientId)
NextRequest(ids) ==
    IF ids = << >>
    THEN [ pc |-> "pull", batch |-> << >>, rest |-> << >> ]
    ELSE [ pc |-> "push",
           batch |-> Take(ids, seConfig.batchSize), rest |-> Drop(ids, seConfig.batchSize) ]
RequestOf(cyc) == IF cyc.pc = "push" THEN "remote.push" ELSE "remote.pull"

\* mutation: the guard ignores isSyncing
BeginSync_NoGuard(e, d, force) ==
    LET cyc == NextRequest(OpIds(GetPending(d.queue)))
    IN  [ e |-> [ e EXCEPT !.isSyncing = TRUE, !.syncStatus = "syncing" ],
          cyc |-> cyc, out |-> << "onSync:syncing", RequestOf(cyc) >> ]

\* (sync(true) is called at most MaxForce times)
\* sync(force) up to its first remote call: the guard, the flag, the status
\* callback, the pending snapshot of push()
BeginSync(e, d, force) ==
    IF e.isSyncing /\ ~force
    THEN [ e |-> e, cyc |-> IdleCycle, out |-> << >> ]
    ELSE LET cyc == NextRequest(OpIds(GetPending(d.queue)))
         IN  [ e |-> [ e EXCEPT !.isSyncing = TRUE, !.syncStatus = "syncing" ],
               cyc |-> cyc, out |-> << "onSync:syncing", RequestOf(cyc) >> ]

\* the calls awaiting the remote, with one more and with one replaced
Awaiting(cs, cyc) == [ cs EXCEPT !.syncs = @ (+) SetToBag({ cyc }) ]
Answered(cs, cyc) == [ cs EXCEPT !.syncs = @ (-) SetToBag({ cyc }) ]

\* a sync() call is made: it returns at once or occupies a slot until the
\* remote answers
SyncStarts(e, d, force, label) ==
    LET r == BeginSync(e, d, force) IN
    IF r.cyc.pc = "idle"
    THEN /\ syncEngine' = r.e
         /\ calls' = calls
         /\ trace' = Traced(label, 0, force, "immediately", r.out)
    ELSE /\ force => calls.forced < MaxForce
         /\ calls' = Awaiting([ calls EXCEPT !.forced = IF force THEN @ + 1 ELSE @ ], r.cyc)
         /\ trace' = Traced(label, 0, force, "awaiting", r.out)
         /\ syncEngine' = r.e

\* sync()'s catch and finally
\* mutation: the flag is released only when the cycle succeeds
FailCycle_KeepFlag(e) == [ e EXCEPT !.syncStatus = "error" ]
FailCycle(e) == [ e EXCEPT !.syncStatus = "error", !.isSyncing = FALSE ]

ConflictFor(id) ==
    [ operation |-> id, serverData |-> ServerData(id), clientData |-> ClientData(id) ]

\* push(): what is done with the result of one batch
ProcessResult(e, d, batch, result) ==
    LET synced == { id \in Range(batch) : result[id] = "synced" }
        conflictIds == SelectSeq(batch, LAMBDA id : result[id] = "conflict")
        errorIds == { id \in Range(batch) : result[id] = "error" }
        q1 == IF synced # {} THEN RemoveFromQueue(d.queue, synced) ELSE d.queue
        p1 == IF synced # {}
              THEN SelectSeq(e.pendingOps, LAMBDA id : id \notin synced)
              ELSE e.pendingOps
        found == [ i \in 1 .. Len(conflictIds) |-> ConflictFor(conflictIds[i]) ]
        e1 == [ e EXCEPT !.pendingOps = p1 ]
        e2 == IF found # << >>
              THEN [ e1 EXCEPT !.conflicts = e.conflicts \o found,
                               !.syncStatus = "conflict" ]
              ELSE e1
        q2 == UpdateQueueStatus(q1, errorIds, "error", "rejected")
    IN  [ e |-> e2, d |-> [ d EXCEPT !.queue = q2 ],
          out |-> IF found # << >>
                  THEN << "onSync:conflict" >>
                       \o [ i \in 1 .. Len(found) |-> "onConflict" ]
                  ELSE << >> ]

\* resolveConflicts(): the resolved operation's data per strategy (manual
\* without remote.resolve resolves nothing)
Resolved(conflict) ==
    CASE seConfig.conflictResolution = "client-wins" -> conflict.clientData
      [] seConfig.conflictResolution = "server-wins" -> conflict.serverData
      [] OTHER -> NoRow

RECURSIVE ResolveConflicts(_, _)
\* mutation: the operation is removed from the queue whatever the strategy
\* decided
ResolveConflicts_AlwaysRemove(d, cs) ==
    IF cs = << >> THEN d
    ELSE LET data == Resolved(Head(cs))
             d1 == IF data # NoRow
                   THEN [ d EXCEPT !.store = data ] ELSE d
         IN  ResolveConflicts(
               [ d1 EXCEPT !.queue = RemoveFromQueue(d1.queue, { Head(cs).operation }) ],
               Tail(cs))

ResolveConflicts(d, cs) ==
    IF cs = << >> THEN d
    ELSE LET data == Resolved(Head(cs))
             d1 == IF data # NoRow
                   THEN [ d EXCEPT !.store = data,
                                   !.queue = RemoveFromQueue(d.queue, { Head(cs).operation }) ]
                   ELSE d
         IN  ResolveConflicts(d1, Tail(cs))

ResolvedIds(cs) ==
    { cs[i].operation : i \in { j \in 1 .. Len(cs) : Resolved(cs[j]) # NoRow } }

\* init()'s tail: isInitialized, startAutoSync, realtimeClient.init
FinishInit(e) ==
    [ e |-> [ e EXCEPT !.isInitialized = TRUE,
                       !.syncTimer = IF seConfig.syncInterval > 0 THEN TRUE ELSE @ ],
      out |-> ( IF seConfig.syncInterval > 0 THEN << "startAutoSync" >> ELSE << >> )
              \o << "realtimeClient.init" >> ]

\* RealtimeClient.init(clientId)
RealtimeInit(c) == IF c.enabled THEN Connect(c) ELSE c

\* ----------------------------------------------------- client engine actions
\* init() is called
InitCall ==
    /\ Len(calls.inits) < MaxInits
    /\ IF syncEngine.isInitialized
       THEN /\ calls' = [ calls EXCEPT !.inits = Append(@, "warned") ]
            /\ trace' = Traced("init", Len(calls.inits) + 1, FALSE, "immediately", << "warn" >>)
            /\ UNCHANGED << syncEngine, localDb, rcVars >>
       ELSE LET e == [ syncEngine EXCEPT !.pendingOps = OpIds(localDb.queue) ] IN
            IF localDb.initialized
            THEN LET f == FinishInit(e) IN
                 /\ syncEngine' = f.e
                 /\ realtimeClient' = RealtimeInit(realtimeClient)
                 /\ rcCall' = "connect"
                 /\ calls' = [ calls EXCEPT !.inits = Append(@, "done") ]
                 /\ trace' = Traced("init", Len(calls.inits) + 1, FALSE, "ok", f.out)
                 /\ UNCHANGED << localDb, rcConfig, delays >>
            ELSE /\ syncEngine' = e
                 /\ calls' = [ calls EXCEPT !.inits = Append(@, "bootstrap") ]
                 /\ trace' = Traced("init", Len(calls.inits) + 1, FALSE, "awaiting", << "remote.pull(0)" >>)
                 /\ UNCHANGED << localDb, rcVars >>
    /\ UNCHANGED << serverVars, seConfig >>

\* the bootstrap pull of an init() call returns: the operations are applied,
\* the store is marked initialized, init() runs to its end
BootstrapReturns ==
    /\ \E i \in 1 .. Len(calls.inits), remote \in BOOLEAN :
         /\ calls.inits[i] = "bootstrap"
         /\ LET f == FinishInit(syncEngine) IN
            /\ syncEngine' = f.e
            /\ localDb' = [ localDb EXCEPT !.initialized = TRUE,
                                           !.store = IF remote THEN RemoteData ELSE @ ]
            /\ trace' = Traced("bootstrap", i, FALSE, "ok", f.out)
         /\ calls' = [ calls EXCEPT !.inits[i] = "done" ]
    /\ realtimeClient' = RealtimeInit(realtimeClient)
    /\ rcCall' = "connect"
    /\ UNCHANGED << serverVars, seConfig, rcConfig, delays >>

\* the bootstrap pull fails: init() throws
BootstrapThrows ==
    /\ \E i \in 1 .. Len(calls.inits) :
         /\ calls.inits[i] = "bootstrap"
         /\ calls' = [ calls EXCEPT !.inits[i] = "failed" ]
         /\ trace' = Traced("bootstrap", i, FALSE, "threw", << >>)
    /\ UNCHANGED << serverVars, seConfig, syncEngine, localDb, rcVars >>

\* update(table, id, data): the row is written, the operation is queued and,
\* with syncInterval 0, sync() is called
Update ==
    /\ syncEngine.isInitialized
    /\ calls.nextOpId <= MaxOps
    /\ LET id == calls.nextOpId
           d == [ localDb EXCEPT !.store = ClientData(id),
                                 !.queue = AddToQueue(@, id) ]
           e == [ syncEngine EXCEPT !.pendingOps = Append(@, id) ]
           r == IF seConfig.syncInterval = 0
                THEN BeginSync(e, d, FALSE)
                ELSE [ e |-> e, cyc |-> IdleCycle, out |-> << >> ]
       IN  /\ localDb' = d
           /\ syncEngine' = r.e
           /\ calls' = IF r.cyc.pc = "idle"
                       THEN [ calls EXCEPT !.nextOpId = id + 1 ]
                       ELSE Awaiting([ calls EXCEPT !.nextOpId = id + 1 ], r.cyc)
           /\ trace' = Traced("update", 0, FALSE, "ok", r.out)
    /\ UNCHANGED << serverVars, seConfig, rcVars >>

\* the application calls sync() or sync(true)
SyncCall ==
    /\ \E force \in BOOLEAN : SyncStarts(syncEngine, localDb, force, "sync")
    /\ UNCHANGED << serverVars, seConfig, localDb, rcVars >>

\* the auto-sync ticker fires: sync()
AutoSyncTick ==
    /\ syncEngine.syncTimer
    /\ SyncStarts(syncEngine, localDb, FALSE, "tick")
    /\ UNCHANGED << serverVars, seConfig, localDb, rcVars >>

\* remote.push(batch) returns a result: every operation of the batch is in
\* synced, in conflicts or in errors
PushReturns ==
    /\ \E cyc \in BagToSet(calls.syncs) :
         /\ cyc.pc = "push"
         /\ \E result \in [ Range(cyc.batch) -> { "synced", "conflict", "error" } ] :
              LET r == ProcessResult(syncEngine, localDb, cyc.batch, result)
                  next == NextRequest(cyc.rest)
              IN  /\ Len(r.e.conflicts) <= MaxConflicts
                  /\ syncEngine' = r.e
                  /\ localDb' = r.d
                  /\ calls' = Awaiting(Answered(calls, cyc), next)
                  /\ trace' = [ Traced("pushReturns", 0, FALSE, "awaiting",
                                       r.out \o << RequestOf(next) >>)
                                EXCEPT !.result = result,
                                       !.conflicted = @ \cup
                                          { id \in Range(cyc.batch) : result[id] = "conflict" } ]
    /\ UNCHANGED << serverVars, seConfig, rcVars >>

\* remote.push(batch) fails: push() rethrows, sync() reports and rethrows
PushThrows ==
    /\ \E cyc \in BagToSet(calls.syncs) :
         /\ cyc.pc = "push"
         /\ calls' = Answered(calls, cyc)
    /\ trace' = Traced("pushThrows", 0, FALSE, "threw", << "onSync:error", "onError" >>)
    /\ syncEngine' = FailCycle(syncEngine)
    /\ UNCHANGED << serverVars, seConfig, localDb, rcVars >>

\* remote.pull returns: the operations of other clients are applied, the
\* recorded conflicts are resolved, the cycle ends; or the client store
\* fails while a resolved operation is applied and the cycle ends in error
PullReturns ==
    /\ \E cyc \in BagToSet(calls.syncs), remote \in BOOLEAN, storeFails \in BOOLEAN :
         /\ cyc.pc = "pull"
         /\ storeFails => ResolvedIds(syncEngine.conflicts) # {}
         /\ LET d == [ localDb EXCEPT !.store = IF remote THEN RemoteData ELSE @ ] IN
            IF storeFails
            THEN /\ localDb' = d
                 /\ syncEngine' = FailCycle(syncEngine)
                 /\ trace' = Traced("pullReturns", 0, FALSE, "threw",
                                    << "onSync:error", "onError" >>)
            ELSE /\ localDb' = ResolveConflicts(d, syncEngine.conflicts)
                 /\ syncEngine' = [ syncEngine EXCEPT !.conflicts = << >>,
                                                      !.syncStatus = "idle",
                                                      !.isSyncing = FALSE ]
                 /\ trace' = [ Traced("pullReturns", 0, FALSE, "ok",
                                      << "onSync:idle" >>)
                               EXCEPT !.resolved = ResolvedIds(syncEngine.conflicts) ]
         /\ calls' = Answered(calls, cyc)
    /\ UNCHANGED << serverVars, seConfig, rcVars >>

\* remote.pull fails: sync() reports and rethrows
PullThrows ==
    /\ \E cyc \in BagToSet(calls.syncs) :
         /\ cyc.pc = "pull"
         /\ calls' = Answered(calls, cyc)
    /\ trace' = Traced("pullThrows", 0, FALSE, "threw", << "onSync:error", "onError" >>)
    /\ syncEngine' = FailCycle(syncEngine)
    /\ UNCHANGED << serverVars, seConfig, localDb, rcVars >>

\* ---------------------------------------------------------- collection view
\* the ids of the records of the viewed table, in the key order of the client
\* store (IndexedDB's getAll returns the records by ascending key)
ViewIds == << "r1", "r2", "r3" >>

\* no record, and the empty slot an assignment beyond the end of a JavaScript
\* array leaves behind
NoRecord == [ id |-> "none", text |-> "none", _version |-> 0 ]
Hole == [ id |-> "hole", text |-> "none", _version |-> 0 ]

\* no update() call is awaiting the engine ("idle" | "merged": the optimistic
\* entry is written, engine.update is awaited | "written": engine.update has
\* written the client store)
NoUpdate == [ pc |-> "idle", id |-> "none", index |-> 0, text |-> "none",
              record |-> NoRecord ]

\* CollectionStore after construction over an empty table (nUpdates: the
\* update() calls made so far)
NewCollection ==
    [ data |-> << >>, error |-> FALSE, update |-> NoUpdate, nUpdates |-> 0,
      table |-> [ i \in Range(ViewIds) |-> NoRecord ] ]

\* data.findIndex(item => item.id === id): 0 stands for -1
FindIndex(data, id) ==
    IF \E i \in 1 .. Len(data) : data[i].id = id
    THEN CHOOSE i \in 1 .. Len(data) :
           data[i].id = id /\ \A j \in 1 .. i - 1 : data[j].id # id
    ELSE 0

\* data[index] = record: an index beyond the end grows the array
AssignAt(data, index, record) ==
    [ i \in 1 .. (IF index > Len(data) THEN index ELSE Len(data)) |->
        IF i = index THEN record ELSE IF i <= Len(data) THEN data[i] ELSE Hole ]

\* data.splice(index, 1)
Splice(data, index) ==
    [ i \in 1 .. Len(data) - 1 |-> IF i < index THEN data[i] ELSE data[i + 1] ]

\* engine.find(table): adapter.find, the records by ascending key
Find(table) ==
    LET present == SelectSeq(ViewIds, LAMBDA i : table[i] # NoRecord)
    IN  [ k \in 1 .. Len(present) |-> table[present[k]] ]

ViewRest ==
    UNCHANGED << fixedVars, rows, now, pushVars, stateUpdated, pulled, pullArgs,
                 rtVars, delivered, inflight, replicas, rcVars, seVars >>

\* CollectionStore.create with a fresh id: the provisional record is pushed,
\* engine.create inserts the record with _version 1, the entry found by its
\* id is replaced by it
CollectionCreate ==
    /\ \E id \in Range(ViewIds) :
         /\ collection.table[id] = NoRecord
         /\ FindIndex(collection.data, id) = 0
         /\ LET record == [ id |-> id, text |-> "a", _version |-> 1 ]
                pushed == Append(collection.data, [ record EXCEPT !._version = 0 ])
            IN  collection' = [ collection EXCEPT
                  !.error = FALSE,
                  !.data = AssignAt(pushed, FindIndex(pushed, id), record),
                  !.table[id] = record ]
    /\ ViewRest

\* CollectionStore.update up to its await: the index of the entry is looked
\* up (a missing entry throws), the entry is merged in place
CollectionUpdate ==
    /\ collection.update.pc = "idle"
    /\ collection.nUpdates < MaxUpdates
    /\ \E id \in Range(ViewIds), text \in { "b" } :
         LET index == FindIndex(collection.data, id) IN
         IF index = 0
         THEN collection' = [ collection EXCEPT !.error = TRUE, !.nUpdates = @ + 1 ]
         ELSE collection' = [ collection EXCEPT
                !.error = FALSE,
                !.nUpdates = @ + 1,
                !.data = AssignAt(@, index, [ @[index] EXCEPT !.text = text ]),
                !.update = [ pc |-> "merged", id |-> id, index |-> index,
                             text |-> text, record |-> NoRecord ] ]
    /\ ViewRest

\* engine.update, awaited by update(): the version is counted up from the
\* stored record (from 0 when there is none) and the record is put
EngineUpdates ==
    /\ collection.update.pc = "merged"
    /\ LET u == collection.update
           record == [ id |-> u.id, text |-> u.text,
                       _version |-> collection.table[u.id]._version + 1 ]
       IN  /\ record._version <= MaxVersion
           /\ collection' = [ collection EXCEPT
                 !.table[u.id] = record,
                 !.update = [ u EXCEPT !.pc = "written", !.record = record ] ]
    /\ ViewRest

\* update() after its await: the record the engine returned is assigned at
\* the index looked up before the await
CollectionUpdateReturns ==
    /\ collection.update.pc = "written"
    /\ collection' = [ collection EXCEPT
          !.data = AssignAt(@, collection.update.index, collection.update.record),
          !.update = NoUpdate ]
    /\ ViewRest

\* CollectionStore.delete: a missing entry throws, the entry is spliced out
\* and engine.delete removes the record
CollectionDelete ==
    /\ \E id \in Range(ViewIds) :
         LET index == FindIndex(collection.data, id) IN
         IF index = 0
         THEN collection' = [ collection EXCEPT !.error = TRUE ]
         ELSE collection' = [ collection EXCEPT
                !.error = FALSE,
                !.data = Splice(@, index),
                !.table[id] = NoRecord ]
    /\ ViewRest

\* reload(), called for a sync-complete message and after a realtime apply
CollectionReload ==
    /\ collection' = [ collection EXCEPT !.error = FALSE,
                                         !.data = Find(collection.table) ]
    /\ ViewRest

\* another tab of the same client creates or deletes a record in the shared
\* client store and sends data-changed: the collection is reloaded
OtherTabChanges ==
    /\ \E id \in Range(ViewIds) :
         LET table == [ collection.table EXCEPT
                          ![id] = IF @ = NoRecord
                                  THEN [ id |-> id, text |-> "a", _version |-> 1 ]
                                  ELSE NoRecord ]
         IN  collection' = [ collection EXCEPT !.error = FALSE,
                                               !.table = table,
                                               !.data = Find(table) ]
    /\ ViewRest

\* --------------------------------------------- replicas in front of the server
\* the devices of user u1: each runs a SyncEngine over an IndexedDB store
ReplicaUser == "u1"

\* what a device's clock reads (new Date() on the client): it need not agree
\* with the server's clock
DeviceTimes == 1 .. MaxTime + 1

\* the stamp of a server row version: its _version, _updatedAt, _isDeleted
NoStamp == << 0, 0, FALSE >>
StampOf(row) == << row._version, row._updatedAt, row._isDeleted >>

\* the stamp of the row version the last operation of a batch wrote or
\* carries (history)
LastStamp(ops, store, was) ==
    IF ops = << >> THEN was
    ELSE StampOf(store[Key(ops[Len(ops)].table, ops[Len(ops)].data.id)])

\* a replica as constructed: an empty store, lastSync 0, nothing queued, no
\* sync cycle under way ("idle" | "pushed": between push() and pull()), no
\* server row version written or applied yet (seen, history), no pull in
\* flight (pull: the lastSync it read and the operations it received)
NoPull == [ lastSync |-> 0, operations |-> << >> ]

NewReplica ==
    [ store |-> EmptyStore, lastSync |-> 0, queue |-> << >>, conflicts |-> << >>,
      inbox |-> << >>, pc |-> "idle", nOps |-> 0, seen |-> NoStamp, pull |-> NoPull ]
NoReplicas == [ c \in Clients |-> NewReplica ]

\* IndexedDBAdapter.insert: store.add rejects on a key that exists
LocalInsert(store, t, data) ==
    IF Key(t, data.id) \in DOMAIN store
    THEN [ ok |-> FALSE, store |-> store ]
    ELSE [ ok |-> TRUE, store |-> store @@ (Key(t, data.id) :> data) ]

\* mutation: the stored version is counted up as the record is written
LocalUpdate_Bump(store, t, id, data) ==
    [ k \in DOMAIN store \cup { Key(t, id) } |->
        IF k # Key(t, id) THEN store[k]
        ELSE IF k \in DOMAIN store
        THEN [ data EXCEPT !.id = id, !._version = store[k]._version + 1 ]
        ELSE [ data EXCEPT !.id = id ] ]

\* IndexedDBAdapter.update: store.put({ ...data, id }) replaces the record
LocalUpdate(store, t, id, data) ==
    [ k \in DOMAIN store \cup { Key(t, id) } |->
        IF k = Key(t, id) THEN [ data EXCEPT !.id = id ] ELSE store[k] ]

\* IndexedDBAdapter.delete: the record is removed
LocalDelete(store, t, id) ==
    [ k \in DOMAIN store \ { Key(t, id) } |-> store[k] ]

\* the record create() and update() build and put into op.data:
\* { ...data, id, _version, _updatedAt: new Date() }, taken at the instant of
\* op.timestamp; the columns only the server fills are absent (_isDeleted
\* reads as false)
LocalRecord(op) ==
    [ id |-> op.data.id, text |-> op.data.text, userId |-> None, _clientId |-> None,
      _version |-> op.version, _updatedAt |-> op.timestamp, _isDeleted |-> FALSE ]

\* op.data as a receiving client reads it: the server's row in a pulled
\* operation, the originating client's record in a forwarded one
DataOf(op) == IF "_version" \in DOMAIN op.data THEN op.data ELSE LocalRecord(op)

\* the loop body of pull() and of handleRealtimeOperations(): the replica's
\* own operations are skipped, a rejected insert is caught
ApplyRemote(store, op, clientId) ==
    IF op.clientId = clientId THEN store
    ELSE CASE op.operation = "insert" -> LocalInsert(store, op.table, DataOf(op)).store
           [] op.operation = "update" -> LocalUpdate(store, op.table, op.data.id, DataOf(op))
           [] op.operation = "delete" -> LocalDelete(store, op.table, op.data.id)

RECURSIVE ApplyRemoteAll(_, _, _)
ApplyRemoteAll(store, ops, clientId) ==
    IF ops = << >> THEN store
    ELSE ApplyRemoteAll(ApplyRemote(store, Head(ops), clientId), Tail(ops), clientId)

\* Math.max(...operations.map(op => op.timestamp), lastSync)
NewLastSync(ops, lastSync) ==
    LET S == { ops[i].timestamp : i \in 1 .. Len(ops) } \cup { lastSync }
    IN  CHOOSE m \in S : \A x \in S : x <= m

\* handleRealtimeOperations: lastSync moves to the newest timestamp of the
\* batch when that is later
RealtimeLastSync_Assign(ops, lastSync) ==
    IF Len(ops) > 0 THEN NewLastSync(ops, 0) ELSE lastSync

RealtimeLastSync(ops, lastSync) ==
    IF Len(ops) > 0 /\ NewLastSync(ops, 0) > lastSync
    THEN NewLastSync(ops, 0) ELSE lastSync

\* remote.push(batch) on the server: the loop of push over the batch
RECURSIVE PushBatch(_, _, _, _)
PushBatch(store, ops, userId, clock) ==
    IF ops = << >> THEN [ store |-> store, results |-> << >> ]
    ELSE LET r == ApplyOp(store, Head(ops), userId, clock)
             rest == PushBatch(r.store, Tail(ops), userId, clock)
         IN  [ store |-> rest.store,
               results |-> << [ operation |-> Head(ops), outcome |-> r.outcome,
                                serverData |-> r.serverData ] >> \o rest.results ]

\* the operations of a push result with one outcome
WithOutcome(results, outcome) ==
    LET hits == SelectSeq(results, LAMBDA r : r.outcome = outcome)
    IN  [ i \in 1 .. Len(hits) |-> hits[i].operation ]

IdsOf(ops) == { ops[i].id : i \in 1 .. Len(ops) }

\* the batches the fan-out of a push puts on the stream of one client
StreamTo(conns, events, clientId) ==
    LET mine == SelectSeq(events, LAMBDA e :
                    \E i \in 1 .. Len(conns) :
                        conns[i].id = e.to /\ conns[i].clientId = clientId)
    IN  [ i \in 1 .. Len(mine) |-> mine[i].operations ]

\* the record resolveConflicts() writes for one conflict: conflict.operation's
\* data or conflict.serverData
ResolvedData(conflict) ==
    LET serverTime == conflict.serverData._updatedAt
        clientTime == IF conflict.operation.operation = "delete" THEN 0
                      ELSE conflict.operation.timestamp
        server == CASE seConfig.conflictResolution = "client-wins" -> FALSE
                    [] seConfig.conflictResolution = "server-wins" -> TRUE
                    [] seConfig.conflictResolution = "last-write-wins" ->
                           serverTime > clientTime
    IN  IF server THEN conflict.serverData ELSE LocalRecord(conflict.operation)

RECURSIVE ResolveAll(_, _)
ResolveAll(store, cs) ==
    IF cs = << >> THEN store
    ELSE ResolveAll(LocalUpdate(store, Head(cs).operation.table,
                                ResolvedData(Head(cs)).id, ResolvedData(Head(cs))),
                    Tail(cs))

ReplicaRest ==
    UNCHANGED << clientVars, inflight, fixedVars, now, pushVars, pulled, pullArgs,
                 rtVars, delivered >>

\* an operation the application makes on a device, stamped by the device
QueuedOp(c, kind, text, ts, ver) ==
    [ Payload("todos", kind, "r1", text, None, ts, ver) EXCEPT
        !.id = replicas[c].nOps + 1, !.clientId = c ]

Enqueued(r, op, store) ==
    [ r EXCEPT !.store = store,
               !.queue = Append(@, [ operation |-> op, status |-> "pending" ]),
               !.nOps = @ + 1 ]

\* the application makes MaxOps + 1 operations in all: a device creates the
\* row with a text of its own, an edit changes the text
CanQueue == replicas["c1"].nOps + replicas["c2"].nOps <= MaxOps
TextOf(c) == IF c = "c1" THEN "a" ELSE "b"
OtherText(x) == IF x = "a" THEN "b" ELSE "a"

\* SyncEngine.create: the record is added locally and the insert is queued
Create(c) ==
    /\ CanQueue
    /\ \E ts \in DeviceTimes :
         LET op == QueuedOp(c, "insert", TextOf(c), ts, 1)
             w == LocalInsert(replicas[c].store, "todos", LocalRecord(op))
         IN  /\ w.ok
             /\ replicas' = [ replicas EXCEPT ![c] = Enqueued(@, op, w.store) ]
    /\ UNCHANGED << rows, stateUpdated >>
    /\ ReplicaRest

\* SyncEngine.update of a record the device holds: the version is counted up
\* from the local copy, the record is replaced and the update is queued
Edit(c) ==
    /\ CanQueue
    /\ Key("todos", "r1") \in DOMAIN replicas[c].store
    /\ replicas[c].store[Key("todos", "r1")]._version <= MaxVersion
    /\ \E ts \in DeviceTimes :
         LET op == QueuedOp(c, "update",
                            OtherText(replicas[c].store[Key("todos", "r1")].text), ts,
                            replicas[c].store[Key("todos", "r1")]._version + 1)
         IN  replicas' = [ replicas EXCEPT ![c] =
                             Enqueued(@, op, LocalUpdate(replicas[c].store, "todos",
                                                         "r1", LocalRecord(op))) ]
    /\ UNCHANGED << rows, stateUpdated >>
    /\ ReplicaRest

\* SyncEngine.delete of a record the device holds: it is removed locally and
\* the delete is queued
Remove(c) ==
    /\ CanQueue
    /\ Key("todos", "r1") \in DOMAIN replicas[c].store
    /\ \E ts \in DeviceTimes :
         LET op == QueuedOp(c, "delete", None, ts, 1)
         IN  replicas' = [ replicas EXCEPT ![c] =
                             Enqueued(@, op, LocalDelete(replicas[c].store, "todos", "r1")) ]
    /\ UNCHANGED << rows, stateUpdated >>
    /\ ReplicaRest

\* sync()'s push(): the pending operations go to the server in one batch, the
\* server applies them and forwards the synced ones to the other streams; the
\* synced ones leave the queue, the conflicts are kept for resolveConflicts,
\* the failed ones are marked
ReplicaPushes(c) ==
    /\ replicas[c].pc = "idle"
    /\ LET pendingEntries == SelectSeq(replicas[c].queue, LAMBDA e : e.status = "pending")
           pending == [ i \in 1 .. Len(pendingEntries) |-> pendingEntries[i].operation ]
           r == PushBatch(rows, pending, ReplicaUser, now)
           synced == WithOutcome(r.results, "synced")
           failed == WithOutcome(r.results, "error")
           conflicted == SelectSeq(r.results, LAMBDA x : x.outcome = "conflict")
           events == IF config.realtime.configured
                     THEN Broadcast(connections, synced, c) ELSE << >>
       IN  /\ \A k \in DOMAIN r.store : r.store[k]._version <= MaxVersion
           /\ rows' = r.store
           /\ stateUpdated' = IF pending = << >> THEN stateUpdated
                              ELSE << c, ReplicaUser >>
           /\ replicas' =
                [ d \in Clients |->
                    IF d = c
                    THEN [ replicas[c] EXCEPT
                             !.queue = [ i \in 1 .. Len(SelectSeq(@, LAMBDA e :
                                                   e.operation.id \notin IdsOf(synced))) |->
                                           LET e == SelectSeq(@, LAMBDA x :
                                                      x.operation.id \notin IdsOf(synced))[i]
                                           IN  IF e.operation.id \in IdsOf(failed)
                                               THEN [ e EXCEPT !.status = "error" ]
                                               ELSE e ],
                             !.conflicts = @ \o [ i \in 1 .. Len(conflicted) |->
                                                   [ operation |-> conflicted[i].operation,
                                                     serverData |-> conflicted[i].serverData ] ],
                             !.pc = "pushed",
                             !.seen = LastStamp(synced, r.store, @) ]
                    ELSE [ replicas[d] EXCEPT
                             !.inbox = @ \o StreamTo(connections, events, d) ] ]
    /\ ReplicaRest

\* sync()'s pull() and resolveConflicts(): the changes since lastSync are
\* applied, lastSync moves to the newest timestamp seen, each conflict is
\* resolved locally and its operation leaves the queue
ReplicaPulls(c) ==
    /\ replicas[c].pc = "pushed"
    /\ LET ops == PullResult(rows, replicas[c].lastSync, c, ReplicaUser)
           cs == replicas[c].conflicts
       IN  replicas' = [ replicas EXCEPT
             ![c].store = ResolveAll(ApplyRemoteAll(@, ops, c), cs),
             ![c].lastSync = NewLastSync(ops, @),
             ![c].queue = SelectSeq(@, LAMBDA e :
                              \A i \in 1 .. Len(cs) : cs[i].operation.id # e.operation.id),
             ![c].conflicts = << >>,
             ![c].pc = "idle",
             ![c].seen = LastStamp(ops, rows, @) ]
    /\ stateUpdated' = << c, ReplicaUser >>
    /\ UNCHANGED rows
    /\ ReplicaRest

\* handleRealtimeOperations: a batch arrives on the stream and is applied;
\* lastSync moves to its newest timestamp when that is later
RealtimeArrives(c) ==
    /\ replicas[c].inbox # << >>
    /\ LET ops == Head(replicas[c].inbox) IN
       replicas' = [ replicas EXCEPT
             ![c].store = ApplyRemoteAll(@, ops, c),
             ![c].lastSync = RealtimeLastSync(ops, @),
             ![c].inbox = Tail(@) ]
    /\ UNCHANGED << rows, stateUpdated >>
    /\ ReplicaRest

\* pull() up to the answer of remote.pull: the stored lastSync is read and the
\* server answers with the changes since then; the operations are applied
\* and lastSync is written after further awaits
PullBegins(c) ==
    /\ replicas[c].pc = "pushed"
    /\ LET ops == PullResult(rows, replicas[c].lastSync, c, ReplicaUser) IN
       replicas' = [ replicas EXCEPT
             ![c].pull = [ lastSync |-> replicas[c].lastSync, operations |-> ops ],
             ![c].pc = "pulling",
             ![c].seen = LastStamp(ops, rows, @) ]
    /\ stateUpdated' = << c, ReplicaUser >>
    /\ UNCHANGED rows
    /\ ReplicaRest

\* the rest of pull() and resolveConflicts(): the operations received are
\* applied, lastSync is set to the newest of their timestamps and the value
\* read when the pull began, the conflicts are resolved
PullEnds(c) ==
    /\ replicas[c].pc = "pulling"
    /\ LET ops == replicas[c].pull.operations
           cs == replicas[c].conflicts
       IN  replicas' = [ replicas EXCEPT
             ![c].store = ResolveAll(ApplyRemoteAll(@, ops, c), cs),
             ![c].lastSync = NewLastSync(ops, replicas[c].pull.lastSync),
             ![c].queue = SelectSeq(@, LAMBDA e :
                              \A i \in 1 .. Len(cs) : cs[i].operation.id # e.operation.id),
             ![c].conflicts = << >>,
             ![c].pc = "idle",
             ![c].pull = NoPull ]
    /\ UNCHANGED << rows, stateUpdated >>
    /\ ReplicaRest
\* ----------------------------------------------------------- specifications
NoRealtime ==
    [ configured |-> FALSE, enabled |-> FALSE,
      maxConnectionsPerUser |-> 0, allowedTables |-> {} ]

SeedRow(u) ==
    [ id |-> "r1", text |-> "a", userId |-> u, _clientId |-> None,
      _version |-> 1, _updatedAt |-> 0, _isDeleted |-> FALSE ]

InitRest ==
    /\ now = 0
    /\ pc = "idle"
    /\ pushClient = None /\ pushUser = None /\ nOps = 0 /\ opRef = NoOp
    /\ syncedOps = << >> /\ conflicts = << >> /\ errors = << >> /\ logged = << >>
    /\ thrown = NoThrow
    /\ stateUpdated = NoState
    /\ pulled = << >> /\ pullArgs = NoArgs
    /\ connections = << >>
    /\ userConnections = [ u \in Users |-> << >> ]
    /\ nextConn = 1
    /\ delivered = << >>
    /\ inflight = NoPushes
    /\ replicas = NoReplicas
    /\ collection = NewCollection

\* no client engine is looked at: it is as constructed, with the defaults'
\* shape (a ticker, batches, last-write-wins)
InitEngineRest ==
    /\ seConfig = [ syncInterval |-> 1, batchSize |-> 1,
                    conflictResolution |-> "last-write-wins" ]
    /\ syncEngine = NewSyncEngine
    /\ localDb = [ queue |-> << >>, store |-> NoRow, initialized |-> FALSE ]
    /\ calls = NoCalls
    /\ trace = NoTrace

\* no realtime client is looked at: it is as constructed, with the defaults'
\* shape (interval doubling up to a cap, a bounded number of attempts)
InitClientRest ==
    /\ rcConfig = [ reconnectInterval |-> 1, maxReconnectInterval |-> 4,
                    maxReconnectAttempts |-> MaxReconnectAttempts ]
    /\ realtimeClient = NewRealtimeClient
    /\ delays = << >>
    /\ rcCall = None
    /\ InitEngineRest

\* the sync server without realtime: one synced table ("notes" is not in the
\* schema), with or without a where filter, under each conflict policy; the
\* store is empty or holds a row written by the server itself
Init ==
    /\ \E w \in BOOLEAN, p \in Strategies :
         config = [ tables |-> ("todos" :> [ where |-> w, conflictResolution |-> p,
                                          transform |-> FALSE ]),
                    getFilter |-> w,
                    realtime |-> NoRealtime ]
    /\ workload = "edits"
    /\ batchSize = 1
    /\ rows \in { EmptyStore } \cup { Key("todos", "r1") :> SeedRow(u) : u \in Users }
    /\ InitRest
    /\ InitClientRest

Next == StartPush \/ ProcessOp \/ FinishPush \/ Pull \/ Tick

Spec == Init /\ [][Next]_vars

\* the sync server with realtime fan-out: two synced tables without a where
\* filter under the default policy, clients that insert rows in batches of up
\* to two, streams limited to the allowed table "todos"
InitRT ==
    /\ config = [ tables |-> [ t \in Tables |->
                                 [ where |-> FALSE, conflictResolution |-> None,
                                   transform |-> FALSE ] ],
                  getFilter |-> FALSE,
                  realtime |-> [ configured |-> TRUE, enabled |-> TRUE,
                                 maxConnectionsPerUser |-> 2,
                                 allowedTables |-> {"todos"} ] ]
    /\ workload = "inserts"
    /\ batchSize = 2
    /\ rows = EmptyStore
    /\ InitRest
    /\ InitClientRest

NextRT ==
    \/ StartPush \/ ProcessOp \/ FinishPush
    \/ CreateConnection \/ CancelConnection \/ SendToUser

SpecRT == InitRT /\ [][NextRT]_vars

\* the realtime server's registry on its own: clients open and cancel
\* streams (one more than MaxConnIds, so that a user allowed two streams
\* opens a third), time passes, the heartbeat interval fires; at most none,
\* one or two streams per user, a connection timeout of one instant
InitRS ==
    /\ \E m \in 0 .. 2 :
         config = [ tables |-> [ tb \in Tables |->
                                   [ where |-> FALSE, conflictResolution |-> None,
                                     transform |-> FALSE ] ],
                    getFilter |-> FALSE,
                    realtime |-> [ configured |-> TRUE, enabled |-> TRUE,
                                   maxConnectionsPerUser |-> m,
                                   allowedTables |-> { "todos" },
                                   heartbeatInterval |-> 1,
                                   connectionTimeout |-> 1 ] ]
    /\ workload = "inserts"
    /\ batchSize = 1
    /\ rows = EmptyStore
    /\ now = 0
    /\ pc = "idle"
    /\ pushClient = None /\ pushUser = None /\ nOps = 0 /\ opRef = NoOp
    /\ syncedOps = << >> /\ conflicts = << >> /\ errors = << >> /\ logged = << >>
    /\ thrown = NoThrow
    /\ stateUpdated = NoState
    /\ pulled = << >> /\ pullArgs = NoArgs
    /\ connections = << >>
    /\ userConnections = [ u \in Users |-> << >> ]
    /\ nextConn = 0
    /\ delivered = << >>
    /\ inflight = NoPushes
    /\ replicas = NoReplicas
    /\ collection = NewCollection
    /\ InitClientRest

NextRS == CreateConnection \/ CancelConnection \/ TimePasses \/ HeartbeatTick

SpecRS == InitRS /\ [][NextRS]_vars
\* the sync server with realtime fan-out over a table with a where filter
\* and a transform: each user's client inserts and updates a row of its own,
\* opens a stream and pulls
InitRTW ==
    /\ config = [ tables |-> ("todos" :> [ where |-> TRUE, conflictResolution |-> None,
                                           transform |-> TRUE ]),
                  getFilter |-> TRUE,
                  realtime |-> [ configured |-> TRUE, enabled |-> TRUE,
                                 maxConnectionsPerUser |-> 2,
                                 allowedTables |-> {} ] ]
    /\ workload = "owned"
    /\ batchSize = 2
    /\ rows = EmptyStore
    /\ InitRest
    /\ InitClientRest

NextRTW == StartPush \/ ProcessOp \/ FinishPush \/ Pull \/ CreateConnection

SpecRTW == InitRTW /\ [][NextRTW]_vars

\* the sync server over an adapter whose calls can fail: one synced table
\* with or without a where filter, batches of up to MaxBatch operations
InitThrow ==
    /\ \E w \in BOOLEAN :
         config = [ tables |-> ("todos" :> [ where |-> w, conflictResolution |-> None,
                                          transform |-> FALSE ]),
                    getFilter |-> w,
                    realtime |-> NoRealtime ]
    /\ workload = "mixed"
    /\ batchSize = MaxBatch
    /\ rows \in { EmptyStore, Key("todos", "r1") :> SeedRow("u1") }
    /\ InitRest
    /\ InitClientRest

NextThrow == StartPush \/ ProcessOp \/ ProcessOpThrows \/ FinishPush

SpecThrow == InitThrow /\ [][NextThrow]_vars

\* push calls of two clients side by side on one row the server seeded: one
\* synced table with or without a where filter, under each conflict policy
\* (the two clients are replicas of user u1, who owns the row)
InitCC ==
    /\ \E w \in BOOLEAN, p \in Strategies :
         config = [ tables |-> ("todos" :> [ where |-> w, conflictResolution |-> p,
                                          transform |-> FALSE ]),
                    getFilter |-> w,
                    realtime |-> NoRealtime ]
    /\ workload = "edits"
    /\ batchSize = 1
    /\ rows = Key("todos", "r1") :> SeedRow("u1")
    /\ InitRest
    /\ InitClientRest

NextCC == PushStarts \/ PushChecksAccess \/ PushFindsOne \/ PushWrites \/ PushEnds

SpecCC == InitCC /\ [][NextCC]_vars

\* two devices of one user in front of the server: each creates, edits and
\* removes the row, pushes and pulls. Device c2 holds a realtime stream and
\* receives what c1 pushed; device c1 has none and learns of changes by
\* pulling. The device clocks and the server clock are anywhere in
\* DeviceTimes; conflicts are resolved by the default strategy; sync() is
\* called by the ticker or the application, at any moment.
InitRep ==
    /\ config = [ tables |-> ("todos" :> [ where |-> TRUE, conflictResolution |-> None,
                                           transform |-> FALSE ]),
                  getFilter |-> TRUE,
                  realtime |-> [ configured |-> TRUE, enabled |-> TRUE,
                                 maxConnectionsPerUser |-> 2,
                                 allowedTables |-> {} ] ]
    /\ connections = << [ id |-> 1, userId |-> ReplicaUser, clientId |-> "c2",
                          tables |-> {}, createdAt |-> 0, lastActivity |-> 0 ] >>
    /\ userConnections = [ u \in Users |->
                             IF u = ReplicaUser THEN << 1 >> ELSE << >> ]
    /\ nextConn = 2
    /\ workload = "edits"
    /\ batchSize = MaxOps + 1
    /\ rows = EmptyStore
    /\ now \in DeviceTimes
    /\ pc = "idle"
    /\ pushClient = None /\ pushUser = None /\ nOps = 0 /\ opRef = NoOp
    /\ syncedOps = << >> /\ conflicts = << >> /\ errors = << >> /\ logged = << >>
    /\ thrown = NoThrow
    /\ stateUpdated = NoState
    /\ pulled = << >> /\ pullArgs = NoArgs
    /\ delivered = << >>
    /\ inflight = NoPushes
    /\ replicas = NoReplicas
    /\ collection = NewCollection
    /\ rcConfig = [ reconnectInterval |-> 1, maxReconnectInterval |-> 4,
                    maxReconnectAttempts |-> MaxReconnectAttempts ]
    /\ realtimeClient = NewRealtimeClient
    /\ delays = << >>
    /\ rcCall = None
    /\ seConfig = [ syncInterval |-> 1, batchSize |-> MaxOps + 1,
                    conflictResolution |-> "last-write-wins" ]
    /\ syncEngine = NewSyncEngine
    /\ localDb = [ queue |-> << >>, store |-> NoRow, initialized |-> FALSE ]
    /\ calls = NoCalls
    /\ trace = NoTrace

NextRep ==
    \E c \in Clients :
        \/ Create(c) \/ Edit(c) \/ Remove(c)
        \/ ReplicaPushes(c) \/ ReplicaPulls(c) \/ RealtimeArrives(c)

SpecRep == InitRep /\ [][NextRep]_vars

\* the same replicas with the pull phase of the replica that holds the stream
\* in its two halves, so that a batch from the stream is applied between the
\* read of lastSync and its write; the devices create and edit the record
Streaming == { connections[i].clientId : i \in 1 .. Len(connections) }

NextLS ==
    \E c \in Clients :
        \/ Create(c) \/ Edit(c)
        \/ ReplicaPushes(c) \/ RealtimeArrives(c)
        \/ c \notin Streaming /\ ReplicaPulls(c)
        \/ c \in Streaming /\ PullBegins(c)
        \/ PullEnds(c)

SpecLS == InitRep /\ [][NextLS]_vars

\* the realtime client on its own: the stream it opens succeeds or fails, its
\* timers fire, the application calls connect, reconnect, enable and disable
InitRC ==
    /\ config = [ tables |-> [ t \in Tables |->
                                 [ where |-> FALSE, conflictResolution |-> None,
                                   transform |-> FALSE ] ],
                  getFilter |-> FALSE,
                  realtime |-> NoRealtime ]
    /\ workload = "inserts"
    /\ batchSize = 1
    /\ rows = EmptyStore
    /\ InitRest
    /\ \E base \in 1 .. 2, cap \in { 3, 2 ^ MaxReconnectAttempts } :
         rcConfig = [ reconnectInterval |-> base, maxReconnectInterval |-> cap,
                      maxReconnectAttempts |-> MaxReconnectAttempts ]
    /\ realtimeClient = NewRealtimeClient
    /\ delays = << >>
    /\ rcCall = None
    /\ InitEngineRest

\* the engine's fields once init() has run to its end
InitializedEngine ==
    [ NewSyncEngine EXCEPT !.isInitialized = TRUE,
                           !.syncTimer = (seConfig.syncInterval > 0) ]

\* the server side is idle and the realtime client as constructed
InitNoServer ==
    /\ config = [ tables |-> [ t \in Tables |->
                                 [ where |-> FALSE, conflictResolution |-> None,
                                   transform |-> FALSE ] ],
                  getFilter |-> FALSE,
                  realtime |-> NoRealtime ]
    /\ workload = "inserts"
    /\ batchSize = 1
    /\ rows = EmptyStore
    /\ InitRest
    /\ rcConfig = [ reconnectInterval |-> 1, maxReconnectInterval |-> 4,
                    maxReconnectAttempts |-> MaxReconnectAttempts ]
    /\ delays = << >>
    /\ rcCall = None

\* the configurations looked at: synchronous mode (syncInterval 0) or a
\* ticker, batches of one operation or of the whole queue, each resolution
\* strategy (manual without remote.resolve)
EngineConfigs ==
    { [ syncInterval |-> 0, batchSize |-> 1, conflictResolution |-> "server-wins" ],
      [ syncInterval |-> 1, batchSize |-> 1, conflictResolution |-> "manual" ],
      [ syncInterval |-> 1, batchSize |-> MaxOps, conflictResolution |-> "client-wins" ],
      [ syncInterval |-> 0, batchSize |-> MaxOps, conflictResolution |-> "manual" ] }

\* the client sync engine, initialized, over a remote that answers each push
\* with any result and may fail
InitSE ==
    /\ InitNoServer
    /\ realtimeClient = RealtimeInit(NewRealtimeClient)
    /\ seConfig \in EngineConfigs
    /\ syncEngine = InitializedEngine
    /\ localDb = [ queue |-> << >>, store |-> NoRow, initialized |-> TRUE ]
    /\ calls = NoCalls
    /\ trace = NoTrace

NextSE ==
    \/ Update \/ SyncCall
    \/ PushReturns \/ PushThrows \/ PullReturns \/ PullThrows

SpecSE == InitSE /\ [][NextSE]_vars

\* the same engine with its auto-sync ticker running beside the application's
\* calls, in synchronous mode and with a ticker
InitSA ==
    /\ InitSE
    /\ seConfig.batchSize = 1

NextSA ==
    \/ Update \/ SyncCall \/ AutoSyncTick
    \/ PushReturns \/ PushThrows \/ PullReturns \/ PullThrows

SpecSA == InitSA /\ [][NextSA]_vars

\* the same engine under one configuration, with a remote whose calls settle:
\* every remote.push and remote.pull awaited by a sync() call returns or fails
RemoteAnswers == PushReturns \/ PushThrows \/ PullReturns \/ PullThrows

InitSEFair ==
    /\ InitSE
    /\ seConfig = [ syncInterval |-> 0, batchSize |-> 1,
                    conflictResolution |-> "server-wins" ]

SpecSEFair == InitSEFair /\ [][NextSE]_vars /\ WF_vars(RemoteAnswers)

\* the client sync engine from construction: init() is called up to
\* MaxInits times, on a client store that is fresh or was initialized in an
\* earlier session; the ticker, once started, runs sync cycles
InitSI ==
    /\ InitNoServer
    /\ realtimeClient = NewRealtimeClient
    /\ \E interval \in 0 .. 1 :
         seConfig = [ syncInterval |-> interval, batchSize |-> 1,
                      conflictResolution |-> "server-wins" ]
    /\ syncEngine = NewSyncEngine
    /\ \E initialized \in BOOLEAN :
         localDb = [ queue |-> << >>, store |-> NoRow, initialized |-> initialized ]
    /\ calls = NoCalls
    /\ trace = NoTrace

NextSI ==
    \/ InitCall \/ BootstrapReturns \/ BootstrapThrows
    \/ AutoSyncTick \/ PullReturns \/ PullThrows

SpecSI == InitSI /\ [][NextSI]_vars

NextRC ==
    \/ RcConnect \/ RcReconnect \/ RcEnable \/ RcDisable
    \/ StreamOpens \/ StreamError \/ HeartbeatTimeout \/ ReconnectTimerFires
    \/ StreamEvent

SpecRC == InitRC /\ [][NextRC]_vars

\* a collection view over the client store: the application creates, updates
\* and deletes records, reloads arrive, another tab changes the store
InitCV ==
    /\ InitNoServer
    /\ realtimeClient = NewRealtimeClient
    /\ InitEngineRest

NextCV ==
    \/ CollectionCreate \/ CollectionUpdate \/ EngineUpdates \/ CollectionUpdateReturns
    \/ CollectionDelete \/ CollectionReload \/ OtherTabChanges

SpecCV == InitCV /\ [][NextCV]_vars

\* ------------------------------------------------------------------ claims
\* helpers for the properties: the step that processes one operation, the
\* operation a step added to synced, the conflict a step recorded
OpProcessed == nOps' = nOps + 1
Accepted == Len(syncedOps') = Len(syncedOps) + 1
AcceptedOp == syncedOps'[Len(syncedOps')]
Conflicted == Len(conflicts') = Len(conflicts) + 1
ConflictEntry == conflicts'[Len(conflicts')]
RefKey == Key(opRef'.table, opRef'.data.id)
ConflictOf(op, serverData) ==
    [ operation |-> op, serverData |-> serverData, clientData |-> op.data ]

\* C1: for every (table, record id) the successive values of the server row's
\* _version are 1, 2, 3, ...: a row appears with _version 1, every accepted
\* write to it (insert, update, policy-resolved update, delete) raises
\* _version by exactly one, and _version never changes otherwise, never
\* repeats under a changed row, never skips and never decreases.
C1_VersionsGapFree ==
    [][ /\ \A k \in DOMAIN rows' :
             IF k \in DOMAIN rows
             THEN /\ rows'[k]._version \in { rows[k]._version, rows[k]._version + 1 }
                  /\ (rows'[k] # rows[k] => rows'[k]._version = rows[k]._version + 1)
             ELSE rows'[k]._version = 1
        /\ Accepted =>
             LET k == Key(AcceptedOp.table, AcceptedOp.data.id) IN
             k \in DOMAIN rows => rows'[k]._version = rows[k]._version + 1
      ]_vars

\* a row has been written up to the highest version explored
C1_Witness ==
    \E k \in DOMAIN rows :
        /\ rows[k]._version >= 3
        /\ Len(syncedOps) > 0
        /\ Key(syncedOps[1].table, syncedOps[1].data.id) = k

\* C2 as stated: an insert is accepted only if no row with data.id exists in
\* the table at that moment, tombstoned rows included; if such a row exists
\* the op produces a Conflict carrying the server row and the client data, is
\* not in synced, and the existing row is unchanged.
C2_InsertOnExistingAlwaysConflict ==
    [][ (OpProcessed /\ opRef'.operation = "insert") =>
          /\ Accepted => (RefKey \notin DOMAIN rows /\ RefKey \in DOMAIN rows')
          /\ RefKey \in DOMAIN rows =>
                /\ Conflicted
                /\ ConflictEntry = ConflictOf(opRef', rows[RefKey])
                /\ ~Accepted
                /\ rows' = rows
      ]_vars

\* C2: an insert is accepted (its id put in synced and a row written) only
\* if no row with data.id exists in the table at that moment, tombstoned rows
\* included; if such a row exists the op is not in synced and the row is
\* unchanged, and the op produces a Conflict carrying the server row and the
\* client data unless the access check refuses it first (the table has a
\* where filter and the op names a user other than the pushing one), in which
\* case it is an "Access denied" error and no conflict.
C2_InsertOnExistingConflictIfPermitted ==
    [][ (OpProcessed /\ opRef'.operation = "insert"
                     /\ opRef'.table \in DOMAIN config.tables) =>
          LET permitted == \/ ~config.tables[opRef'.table].where
                           \/ opRef'.userId = None /\ opRef'.data.userId = None
                           \/ opRef'.userId = pushUser
                           \/ opRef'.data.userId = pushUser
          IN  /\ Accepted => (RefKey \notin DOMAIN rows /\ RefKey \in DOMAIN rows')
              /\ RefKey \in DOMAIN rows =>
                    /\ ~Accepted
                    /\ rows' = rows
                    /\ IF permitted
                       THEN /\ Conflicted
                            /\ ConflictEntry = ConflictOf(opRef', rows[RefKey])
                            /\ errors' = errors
                       ELSE /\ conflicts' = conflicts
                            /\ errors' = Append(errors, [ id |-> nOps + 1,
                                                          error |-> "Access denied" ])
      ]_vars

\* an insert of a record id whose row is tombstoned has just been turned into
\* a conflict carrying that row
C2_Witness ==
    /\ pc = "processing"
    /\ Len(conflicts) > 0
    /\ conflicts[Len(conflicts)].operation.operation = "insert"
    /\ conflicts[Len(conflicts)].serverData._isDeleted
    /\ conflicts[Len(conflicts)].clientData.text # conflicts[Len(conflicts)].serverData.text
    /\ rows[Key("todos", "r1")] = conflicts[Len(conflicts)].serverData

\* C3: every update operation that ends up in synced had op.version equal to
\* the row's _version + 1 when it was applied, or a version mismatch that the
\* table's conflict policy decided as resolved; and a server row changes only
\* in a step that puts an operation on that row in synced.
C3_UpdateAcceptedOnlyIfVersionOrPolicy ==
    [][ /\ (Accepted /\ AcceptedOp.operation = "update") =>
             LET k == Key(AcceptedOp.table, AcceptedOp.data.id) IN
             /\ k \in DOMAIN rows
             /\ \/ AcceptedOp.version = rows[k]._version + 1
                \/ LET strategy == config.tables[AcceptedOp.table].conflictResolution
                   IN  \/ strategy = "client-wins"
                       \/ /\ strategy \in { "last-write-wins", None }
                          /\ AcceptedOp.timestamp > rows[k]._updatedAt
        /\ \A k \in DOMAIN rows :
             (k \in DOMAIN rows' /\ rows'[k] # rows[k]) =>
                 /\ Accepted
                 /\ Key(AcceptedOp.table, AcceptedOp.data.id) = k
      ]_vars

\* an update whose version did not match was applied because the policy
\* resolved it: the row's version now is not the one the op asked for
C3_Witness ==
    \E i \in 1 .. Len(syncedOps) :
        LET op == syncedOps[i]
            k == Key(op.table, op.data.id)
        IN  /\ op.operation = "update"
            /\ k \in DOMAIN rows
            /\ rows[k]._version # op.version
            /\ rows[k]._clientId = op.clientId

\* C4 as stated: under last-write-wins an update with a version mismatch is
\* applied if and only if the op's timestamp is strictly greater than the
\* row's _updatedAt; when equal or older the op is returned as a conflict and
\* the row is unchanged.
C4_LwwAppliedIffNewer ==
    [][ ( /\ OpProcessed
          /\ opRef'.operation = "update"
          /\ opRef'.table \in DOMAIN config.tables
          /\ config.tables[opRef'.table].conflictResolution = "last-write-wins"
          /\ RefKey \in DOMAIN rows
          /\ opRef'.version # rows[RefKey]._version + 1 )
        => IF opRef'.timestamp > rows[RefKey]._updatedAt
           THEN /\ Accepted
                /\ rows'[RefKey]._version = rows[RefKey]._version + 1
                /\ rows'[RefKey].text = opRef'.data.text
           ELSE /\ Conflicted
                /\ ConflictEntry = ConflictOf(opRef', rows[RefKey])
                /\ ~Accepted
                /\ rows' = rows
      ]_vars

\* C4: under last-write-wins an update with a version mismatch that passes
\* the access check (the table has no where filter, or the row belongs to the
\* pushing user) is applied if and only if the op's timestamp is strictly
\* greater than the row's _updatedAt; when equal or older the op is returned
\* as a conflict and the row is unchanged.  An update the access check refuses
\* is an "Access denied" error whatever its timestamp.
C4_LwwAppliedIffNewerWhenPermitted ==
    [][ ( /\ OpProcessed
          /\ opRef'.operation = "update"
          /\ opRef'.table \in DOMAIN config.tables
          /\ config.tables[opRef'.table].conflictResolution = "last-write-wins"
          /\ RefKey \in DOMAIN rows
          /\ opRef'.version # rows[RefKey]._version + 1 )
        => IF config.tables[opRef'.table].where /\ rows[RefKey].userId # pushUser
           THEN /\ ~Accepted /\ ~Conflicted /\ rows' = rows
                /\ errors' = Append(errors, [ id |-> nOps + 1,
                                              error |-> "Access denied" ])
           ELSE IF opRef'.timestamp > rows[RefKey]._updatedAt
           THEN /\ Accepted
                /\ rows'[RefKey]._version = rows[RefKey]._version + 1
                /\ rows'[RefKey].text = opRef'.data.text
                /\ rows'[RefKey]._clientId = opRef'.clientId
           ELSE /\ Conflicted
                /\ ConflictEntry = ConflictOf(opRef', rows[RefKey])
                /\ ~Accepted
                /\ rows' = rows
      ]_vars

\* a mismatching update whose timestamp equals the row's _updatedAt has just
\* been returned as a conflict under last-write-wins
C4_Witness ==
    /\ pc = "processing"
    /\ config.tables["todos"].conflictResolution = "last-write-wins"
    /\ Len(conflicts) > 0
    /\ LET c == conflicts[Len(conflicts)]
       IN  /\ c.operation.operation = "update"
           /\ c.operation.version # c.serverData._version + 1
           /\ c.operation.timestamp = c.serverData._updatedAt
           /\ c.operation.timestamp > 0

\* C5: on a table with a where filter, an update or delete pushed by user U
\* against an existing row whose userId is not U is reported in errors as
\* "Access denied", is added neither to conflicts nor to synced, and leaves
\* the row unchanged.
C5_ForeignRowAccessDenied ==
    [][ ( /\ OpProcessed
          /\ opRef'.operation \in { "update", "delete" }
          /\ opRef'.table \in DOMAIN config.tables
          /\ config.tables[opRef'.table].where
          /\ RefKey \in DOMAIN rows
          /\ rows[RefKey].userId # pushUser )
        => /\ errors' = Append(errors, [ id |-> nOps + 1, error |-> "Access denied" ])
           /\ conflicts' = conflicts
           /\ syncedOps' = syncedOps
           /\ rows' = rows
      ]_vars

\* an update or delete of another user's row has just been refused
C5_Witness ==
    /\ pc = "processing"
    /\ opRef.operation \in { "update", "delete" }
    /\ Key(opRef.table, opRef.data.id) \in DOMAIN rows
    /\ rows[Key(opRef.table, opRef.data.id)].userId # pushUser
    /\ Len(errors) > 0
    /\ errors[Len(errors)].error = "Access denied"

\* C6: every operation returned by pull(lastSync, clientId = C, userId) has
\* clientId different from C; a row whose _clientId is null is not excluded on
\* that account: when it is newer than lastSync and passes the user filter it
\* is returned, with clientId "server".
C6_PullExcludesCaller ==
    pullArgs.clientId # None =>
      /\ \A i \in 1 .. Len(pulled) : pulled[i].clientId # pullArgs.clientId
      /\ \A k \in DOMAIN rows :
           ( /\ k[1] \in DOMAIN config.tables
             /\ rows[k]._clientId = None
             /\ rows[k]._updatedAt > pullArgs.lastSync
             /\ (config.getFilter => rows[k].userId = pullArgs.userId) )
           => \E i \in 1 .. Len(pulled) :
                 /\ pulled[i].table = k[1]
                 /\ pulled[i].data = rows[k]
                 /\ pulled[i].clientId = "server"
      /\ \A i \in 1 .. Len(pulled) :
           LET k == Key(pulled[i].table, pulled[i].data.id)
           IN  /\ k \in DOMAIN rows
               /\ pulled[i].data = rows[k]
               /\ pulled[i].clientId =
                     (IF rows[k]._clientId = None THEN "server" ELSE rows[k]._clientId)

\* a client pulled while the store held a row it wrote itself after lastSync:
\* the pull returned nothing
C6_Witness ==
    /\ pullArgs.clientId # None
    /\ pulled = << >>
    /\ \E k \in DOMAIN rows :
         /\ rows[k]._clientId = pullArgs.clientId
         /\ rows[k]._updatedAt > pullArgs.lastSync
         /\ rows[k].userId = pullArgs.userId

\* C7 as stated: pushing the same delete operation twice leaves the server in
\* the same state as pushing it once: when a push has reported a delete in
\* synced, pushing that delete again (at once or later) reports it in synced
\* too and leaves the store as the first push left it.
C7_DeleteTwiceSameState ==
    [][ (OpProcessed /\ opRef'.operation = "delete" /\ Accepted) =>
          \A later \in now .. MaxTime :
             LET second == ApplyOp(rows', opRef', pushUser, later)
             IN  /\ second.outcome = "synced"
                 /\ second.store = rows'
      ]_vars

\* C7: pushing the same delete operation twice, on a synced table and with
\* the access check passed (no where filter, or the row exists and belongs to
\* the pushing user), reports the op in synced both times and leaves the row
\* tombstoned with its data after either push; the second push is not a no-op
\* on an existing row: it raises _version by one more and sets _updatedAt to
\* the server clock again, changing nothing else.  On a row that does not
\* exist neither push changes the store.
C7_DeleteTwiceTombstoneKept ==
    [][ ( /\ OpProcessed
          /\ opRef'.operation = "delete"
          /\ opRef'.table \in DOMAIN config.tables
          /\ \/ ~config.tables[opRef'.table].where
             \/ RefKey \in DOMAIN rows /\ rows[RefKey].userId = pushUser )
        => /\ Accepted
           /\ AcceptedOp = opRef'
           /\ \A later \in now .. MaxTime :
                LET second == ApplyOp(rows', opRef', pushUser, later)
                IN  /\ second.outcome = "synced"
                    /\ IF RefKey \in DOMAIN rows
                       THEN /\ rows' = [ rows EXCEPT ![RefKey] =
                                           [ @ EXCEPT !._isDeleted = TRUE,
                                                      !._version = @ + 1,
                                                      !._updatedAt = now ] ]
                            /\ second.store = [ rows' EXCEPT ![RefKey] =
                                                  [ @ EXCEPT !._version = @ + 1,
                                                             !._updatedAt = later ] ]
                       ELSE rows' = rows /\ second.store = rows
      ]_vars

\* a row the server seeded has been deleted twice and nothing else: it is a
\* tombstone at _version 3, and the second delete is the op just synced
C7_Witness ==
    /\ pc = "processing"
    /\ Len(syncedOps) > 0
    /\ syncedOps[Len(syncedOps)].operation = "delete"
    /\ LET k == Key(syncedOps[Len(syncedOps)].table, syncedOps[Len(syncedOps)].data.id)
       IN  /\ k \in DOMAIN rows
           /\ rows[k]._isDeleted
           /\ rows[k]._clientId = None
           /\ rows[k]._version = 3

\* C8: no push physically removes a server row: every row that exists keeps
\* existing, and an accepted delete of an existing row only sets _isDeleted
\* on it, keeping its id, text and userId.
C8_RowsNeverRemoved ==
    [][ /\ DOMAIN rows \subseteq DOMAIN rows'
        /\ (Accepted /\ AcceptedOp.operation = "delete") =>
             LET k == Key(AcceptedOp.table, AcceptedOp.data.id) IN
             k \in DOMAIN rows =>
                 /\ k \in DOMAIN rows'
                 /\ rows'[k]._isDeleted
                 /\ rows'[k].id = rows[k].id
                 /\ rows'[k].text = rows[k].text
                 /\ rows'[k].userId = rows[k].userId
      ]_vars

\* a delete was accepted and its row is still there, tombstoned
C8_Witness ==
    /\ Len(syncedOps) > 0
    /\ syncedOps[Len(syncedOps)].operation = "delete"
    /\ LET k == Key(syncedOps[Len(syncedOps)].table, syncedOps[Len(syncedOps)].data.id)
       IN  k \in DOMAIN rows /\ rows[k]._isDeleted /\ rows[k].text \in Texts

\* C9: when push fans out its synced operations, no connection of the client
\* that pushed them receives an event, and every other connection that is
\* subscribed to a table of the batch (or to all tables) receives exactly one
\* operations event carrying the synced operations of its tables.
C9_FanOutSkipsOriginator ==
    [][ (pc = "processing" /\ pc' = "idle" /\ Len(syncedOps) > 0) =>
          \A i \in 1 .. Len(connections) :
             LET c == connections[i]
                 got == { j \in 1 .. Len(delivered') : delivered'[j].to = c.id }
                 wanted == SelectSeq(syncedOps,
                              LAMBDA o : c.tables = {} \/ o.table \in c.tables)
             IN  IF c.clientId = pushClient \/ wanted = << >>
                 THEN got = {}
                 ELSE /\ Cardinality(got) = 1
                      /\ \A j \in got : /\ delivered'[j].type = "operations"
                                         /\ delivered'[j].operations = wanted
      ]_vars

\* a push was fanned out to a connection of another client while the pushing
\* client held a connection subscribed to the same operations
C9_Witness ==
    /\ Len(delivered) = 1
    /\ delivered[1].type = "operations"
    /\ \E i, j \in 1 .. Len(connections) :
         /\ connections[i].id = delivered[1].to
         /\ connections[i].clientId # delivered[1].operations[1].clientId
         /\ connections[j].clientId = delivered[1].operations[1].clientId
         /\ connections[j].tables = connections[i].tables

\* C10: a connection whose tables subscription is non-empty never receives,
\* through broadcast or sendToUser, an operation whose table is outside that
\* subscription.
C10_SubscriptionFilterStrict ==
    \A i \in 1 .. Len(delivered), j \in 1 .. Len(connections) :
        ( /\ delivered[i].type = "operations"
          /\ connections[j].id = delivered[i].to
          /\ connections[j].tables # {} )
        => \A n \in 1 .. Len(delivered[i].operations) :
               delivered[i].operations[n].table \in connections[j].tables

\* a push that wrote both tables was fanned out to a connection subscribed to
\* "todos" only: its event carries one operation of the two
C10_Witness ==
    \E i \in 1 .. Len(delivered), j \in 1 .. Len(connections) :
        /\ delivered[i].type = "operations"
        /\ connections[j].id = delivered[i].to
        /\ connections[j].tables = {"todos"}
        /\ delivered[i].tables = {"todos", "notes"}
        /\ Len(delivered[i].operations) = 1

\* C11: with reconnectInterval = base, maxReconnectInterval = cap and
\* maxReconnectAttempts = max, the delays scheduled before consecutive
\* reconnect attempts during an uninterrupted run of failures are exactly
\* min(base * 2^k, cap) for k = 0, 1, ..., max-1, in that order: the k-th
\* failure of the run (k < max) arms the reconnect timer with that delay, and
\* a failure after max scheduled reconnects arms no timer.
C11_BackoffSchedule ==
    [][ rcCall' \in { "error", "watchdog" } =>
          LET k == Len(delays)
              base == rcConfig.reconnectInterval
              cap == rcConfig.maxReconnectInterval
              expected == IF base * (2 ^ k) <= cap THEN base * (2 ^ k) ELSE cap
          IN  IF k < rcConfig.maxReconnectAttempts
              THEN /\ realtimeClient'.reconnectTimer = expected
                   /\ delays' = Append(delays, expected)
              ELSE /\ realtimeClient'.reconnectTimer = NoTimer
                   /\ delays' = delays
      ]_vars

\* a run of failures went through the whole schedule, the last delay being
\* the cap, and ended in fallback
C11_Witness ==
    /\ Len(delays) = rcConfig.maxReconnectAttempts
    /\ delays[1] = rcConfig.reconnectInterval
    /\ delays[2] = 2 * rcConfig.reconnectInterval
    /\ delays[Len(delays)] = rcConfig.maxReconnectInterval
    /\ rcConfig.maxReconnectInterval
         < rcConfig.reconnectInterval * (2 ^ (rcConfig.maxReconnectAttempts - 1))
    /\ realtimeClient.status = "fallback"

C18_UpdateMissingRecordNotFound ==
    [][ ( /\ OpProcessed
          /\ opRef'.operation = "update"
          /\ opRef'.table \in DOMAIN config.tables
          /\ FindOne(rows, opRef'.table, opRef'.data.id) = Null )
        => /\ errors' = Append(errors, [ id |-> opRef'.id, error |-> "Record not found" ])
           /\ rows' = rows
      ]_vars

\* C19 as stated: a delete operation whose target row does not exist on the
\* server succeeds: its id is in synced, nothing is added to errors or
\* conflicts, and no server row is created or changed, whether or not the
\* table defines a where filter.
C19_DeleteMissingSucceeds ==
    [][ ( /\ OpProcessed
          /\ opRef'.operation = "delete"
          /\ opRef'.table \in DOMAIN config.tables
          /\ FindOne(rows, opRef'.table, opRef'.data.id) = Null )
        => /\ Accepted /\ AcceptedOp.id = opRef'.id
           /\ errors' = errors
           /\ conflicts' = conflicts
           /\ rows' = rows
      ]_vars

\* the ids of the operations the running push has put in each result list
SyncedIds == [ i \in 1 .. Len(syncedOps) |-> syncedOps[i].id ]
ConflictIds == [ i \in 1 .. Len(conflicts) |-> conflicts[i].operation.id ]
ErrorIds == [ i \in 1 .. Len(errors) |-> errors[i].id ]
Increasing(seq) == \A i, j \in 1 .. Len(seq) : i < j => seq[i] < seq[j]

\* C20: if the adapter throws while one operation of a push batch is being
\* processed, that operation's id and the message are recorded in errors, the
\* operations before it keep their outcome, and every later operation of the
\* batch is still processed in input order: the loop goes on with the next
\* operation, and at every moment the first nOps operations of the batch are
\* each in exactly one of synced, conflicts and errors, in input order.
C20_AdapterThrowIsolated ==
    /\ [][ thrown'.point # None =>
             /\ errors' = Append(errors,
                    [ id |-> opRef'.id,
                      error |-> IF thrown'.isError THEN thrown'.message
                                ELSE "Unknown error" ])
             /\ opRef'.id = nOps + 1
             /\ syncedOps' = syncedOps
             /\ conflicts' = conflicts
             /\ pc' = "processing"
             /\ nOps' = nOps + 1
         ]_vars
    /\ [][ ( thrown.point # None /\ OpProcessed ) =>
             /\ opRef'.id = opRef.id + 1
             /\ \A i \in 1 .. Len(errors) : errors'[i] = errors[i]
             /\ \A i \in 1 .. Len(syncedOps) : syncedOps'[i] = syncedOps[i]
             /\ \A i \in 1 .. Len(conflicts) : conflicts'[i] = conflicts[i]
         ]_vars
    /\ []( pc = "processing" =>
             /\ Range(SyncedIds) \cup Range(ConflictIds) \cup Range(ErrorIds)
                  = 1 .. nOps
             /\ Len(syncedOps) + Len(conflicts) + Len(errors) = nOps
             /\ Increasing(SyncedIds)
             /\ Increasing(ConflictIds)
             /\ Increasing(ErrorIds) )
    /\ []( ( pc = "processing" /\ thrown.point # None /\ nOps < batchSize )
           => ENABLED ProcessOp )

\* the second of three operations failed in the adapter; the first is still
\* synced and the third was processed and synced after the failure
C20_Witness ==
    /\ pc = "processing" /\ nOps = 3
    /\ Len(syncedOps) = 2 /\ syncedOps[1].id = 1 /\ syncedOps[2].id = 3
    /\ errors = << [ id |-> 2, error |-> "connection lost" ] >>
    /\ conflicts = << >>

\* the client's durable queue before and after a step, and the ids a push
\* result names
Queue == localDb.queue
QueueAfter == localDb'.queue
ResultProcessed == trace'.call = "pushReturns"
Reported(kind) == { id \in DOMAIN trace'.result : trace'.result[id] = kind }

\* C13 as stated: after the client has processed the result of a push batch,
\* every id in result.synced is absent from the queue and every id in
\* result.errors has queue status error with the reported message.
C13_QueueReflectsResult ==
    [][ ResultProcessed =>
          /\ \A id \in Reported("synced") : ~InQueue(QueueAfter, id)
          /\ \A id \in Reported("error") :
               /\ InQueue(QueueAfter, id)
               /\ QueueEntry(QueueAfter, id).status = "error"
               /\ QueueEntry(QueueAfter, id).error = "rejected"
      ]_vars

\* C13: after the client has processed the result of a push batch, every id
\* in result.synced is absent from the queue, and every id in result.errors
\* whose operation was still queued when the result arrived has queue status
\* error with the reported message; an operation that an overlapping sync
\* had already removed from the queue stays absent.
C13_QueueReflectsResultIfQueued ==
    [][ ResultProcessed =>
          /\ \A id \in Reported("synced") : ~InQueue(QueueAfter, id)
          /\ \A id \in Reported("error") :
               IF InQueue(Queue, id)
               THEN /\ InQueue(QueueAfter, id)
                    /\ QueueEntry(QueueAfter, id).status = "error"
                    /\ QueueEntry(QueueAfter, id).error = "rejected"
               ELSE ~InQueue(QueueAfter, id)
      ]_vars

\* a result that reported an error has been processed and the operation is
\* in the queue with status error and the message
C13_Witness ==
    /\ trace.call = "pushReturns"
    /\ \E id \in DOMAIN trace.result :
         /\ trace.result[id] = "error"
         /\ InQueue(Queue, id)
         /\ QueueEntry(Queue, id) = [ id |-> id, status |-> "error", error |-> "rejected" ]

\* C14 as stated: an operation reported in result.conflicts stays in the
\* durable queue until its conflict has been resolved: it is not removed
\* before a resolved operation for it has been applied to the client store,
\* and it is removed once that has happened.
C14_ConflictedQueuedUntilResolved ==
    [][ \A id \in 1 .. MaxOps :
          /\ ( id \in trace'.conflicted /\ InQueue(Queue, id) /\ ~InQueue(QueueAfter, id) )
               => id \in trace'.resolved
          /\ id \in trace'.resolved =>
               /\ ~InQueue(QueueAfter, id)
               /\ localDb'.store.src \in { "client", "server" }
      ]_vars

\* C14: an operation reported in result.conflicts is left in the durable
\* queue, unchanged, by the processing of that result.  It leaves the queue
\* when conflict resolution has applied a resolved operation for it to the
\* client store (it is removed in the same pass), or, without any
\* resolution, when a later or overlapping push of the still pending
\* operation is answered with synced.
C14_ConflictedQueuedUntilResolvedOrSynced ==
    [][ \A id \in 1 .. MaxOps :
          /\ ( id \in trace'.conflicted /\ InQueue(Queue, id) /\ ~InQueue(QueueAfter, id) )
               => \/ id \in trace'.resolved
                  \/ ( ResultProcessed /\ id \in Reported("synced") )
          /\ ( ResultProcessed /\ id \in Reported("conflict") /\ InQueue(Queue, id) )
               => /\ InQueue(QueueAfter, id)
                  /\ QueueEntry(QueueAfter, id) = QueueEntry(Queue, id)
          /\ id \in trace'.resolved =>
               /\ ~InQueue(QueueAfter, id)
               /\ localDb'.store.src \in { "client", "server" }
      ]_vars

\* conflict resolution has just applied the resolved operation of a
\* conflicted operation to the client store and taken it off the queue
C14_Witness ==
    /\ trace.call = "pullReturns"
    /\ trace.resolved # {}
    /\ trace.resolved \subseteq trace.conflicted
    /\ \A id \in trace.resolved : ~InQueue(Queue, id)
    /\ localDb.store.src = "server"

\* C15: a sync() call made without force while isSyncing is true returns
\* immediately: it pushes nothing, pulls nothing, does not change syncStatus
\* and invokes no callback; nothing of the engine, the queue or the calls in
\* flight changes.  The same holds for the sync() that update() makes in
\* synchronous mode.
C15_SyncWhileSyncingReturns ==
    [][ /\ ( trace'.call = "sync" /\ ~trace'.force /\ syncEngine.isSyncing )
          => /\ trace'.ended = "immediately"
             /\ trace'.out = << >>
             /\ syncEngine' = syncEngine
             /\ localDb' = localDb
             /\ calls' = calls
        /\ ( trace'.call = "update" /\ syncEngine.isSyncing )
          => /\ trace'.out = << >>
             /\ syncEngine'.syncStatus = syncEngine.syncStatus
             /\ syncEngine'.isSyncing
             /\ calls'.syncs = calls.syncs
      ]_vars

\* sync() was called without force while a cycle was awaiting the remote
C15_Witness ==
    /\ trace.call = "sync" /\ ~trace.force
    /\ trace.ended = "immediately"
    /\ syncEngine.isSyncing
    /\ syncEngine.syncStatus = "conflict"
    /\ BagCardinality(calls.syncs) = 1

\* C16: every sync cycle that starts releases isSyncing: whether its push,
\* pull or conflict resolution returns or throws, isSyncing is false once
\* that sync() call has finished, a sync() without force is able to run
\* then, and with a remote whose calls settle the flag never stays set.
C16_IsSyncingReleased ==
    /\ [][ trace'.call \in { "pushThrows", "pullReturns", "pullThrows" }
             => ~syncEngine'.isSyncing ]_vars
    /\ []( ~syncEngine.isSyncing
             => BeginSync(syncEngine, localDb, FALSE).cyc.pc # "idle" )
    /\ ( syncEngine.isSyncing ~> ~syncEngine.isSyncing )

\* a cycle has just ended in error while resolving a conflict, with the
\* flag released
C16_Witness ==
    /\ trace.call = "pullReturns"
    /\ trace.ended = "threw"
    /\ syncEngine.conflicts # << >>
    /\ ~syncEngine.isSyncing
    /\ syncEngine.syncStatus = "error"

\* C17 as stated: a second init() call on the same engine (the first has not
\* failed) logs a warning and returns without repeating the bootstrap pull,
\* without starting another auto-sync ticker and without telling the
\* realtime client to connect again.
C17_InitIdempotent ==
    [][ ( /\ trace'.call \in { "init", "bootstrap" }
          /\ trace'.nth >= 2
          /\ calls.inits # << >>
          /\ calls.inits[1] # "failed"
          /\ calls' # calls )
        => /\ trace'.out = << "warn" >>
           /\ syncEngine' = syncEngine
           /\ localDb' = localDb
           /\ realtimeClient' = realtimeClient
      ]_vars


C26_RetryChangesNoRow ==
    [][ Accepted =>
          \A later \in now .. MaxTime :
             ApplyOp(rows', AcceptedOp, pushUser, later).store = rows'
      ]_vars

\* C26: pushing again an operation the server has just accepted never
\* changes a row's id, text, userId, _clientId or _isDeleted.  A retried
\* insert is stopped by the insert-exists check: it is reported as a conflict
\* and the store is unchanged.  A retried update is stopped only when the
\* row's _version is not op.version - 1 and the policy refuses it
\* (server-wins, or last-write-wins with op.timestamp not later than the
\* row's _updatedAt); otherwise it is applied again.  A retried delete of an
\* existing row is always applied again.  An operation applied again is
\* reported in synced and raises the row's _version by one more and sets
\* _updatedAt to the server clock.
C26_RetryKeepsFields ==
    [][ Accepted =>
          LET op == AcceptedOp
              k == Key(op.table, op.data.id)
              strategy == config.tables[op.table].conflictResolution
              refused == /\ rows'[k]._version # op.version - 1
                         /\ \/ strategy = "server-wins"
                            \/ /\ strategy \in { None, "last-write-wins" }
                               /\ op.timestamp <= rows'[k]._updatedAt
          IN  \A later \in now .. MaxTime :
                LET second == ApplyOp(rows', op, pushUser, later)
                    again == [ rows' EXCEPT ![k] =
                                 [ @ EXCEPT !._version = @ + 1, !._updatedAt = later ] ]
                IN  CASE op.operation = "insert" ->
                           second.outcome = "conflict" /\ second.store = rows'
                      [] op.operation = "update" ->
                           IF refused
                           THEN second.outcome = "conflict" /\ second.store = rows'
                           ELSE second.outcome = "synced" /\ second.store = again
                      [] op.operation = "delete" ->
                           /\ second.outcome = "synced"
                           /\ IF k \in DOMAIN rows'
                              THEN second.store = again
                              ELSE second.store = rows'
      ]_vars

\* an update accepted by the last-write-wins policy (the row was at another
\* version, the operation's timestamp is later than the server's clock) and
\* an update accepted under server-wins: pushed again, the first is applied
\* once more and the second is refused
C26_Witness ==
    /\ Len(syncedOps) > 0
    /\ syncedOps[Len(syncedOps)].operation = "update"
    /\ LET op == syncedOps[Len(syncedOps)]
           k == Key(op.table, op.data.id)
       IN  /\ k \in DOMAIN rows
           /\ config.tables[op.table].conflictResolution = "last-write-wins"
           /\ rows[k]._version # op.version - 1
           /\ op.timestamp > rows[k]._updatedAt
           /\ ApplyOp(rows, op, pushUser, now).store # rows

\* the push call of client c has ended after its adapter.update was issued
\* for an update operation
WroteUpdate(c) ==
    /\ inflight[c].pc = "done"
    /\ inflight[c].op.operation = "update"
    /\ inflight[c].current # Null
    /\ inflight[c].outcome # "conflict"

\* C25: when two push calls update the same row side by side, both having
\* read the row at the same _version, exactly one write is applied: the
\* row's _version is one above the version read and the row carries the
\* winner's _clientId; the other call's adapter.update throws and its
\* operation is reported in errors with the adapter's message, not in
\* conflicts and not in synced.
C25_ConcurrentUpdateOneWins ==
    \A c \in Clients, d \in Clients :
       ( /\ c # d
         /\ WroteUpdate(c) /\ WroteUpdate(d)
         /\ inflight[c].op.table = inflight[d].op.table
         /\ inflight[c].op.data.id = inflight[d].op.data.id
         /\ inflight[c].current._version = inflight[d].current._version )
       => LET k == Key(inflight[c].op.table, inflight[c].op.data.id)
              winner == IF inflight[c].outcome = "synced" THEN c ELSE d
              loser == IF winner = c THEN d ELSE c
          IN  /\ inflight[winner].outcome = "synced"
              /\ inflight[loser].outcome = "error"
              /\ inflight[loser].error = "Version conflict or record not found"
              /\ rows[k]._version = inflight[c].current._version + 1
              /\ rows[k]._clientId = winner

\* both clients read the row at _version 2 and wrote: c2's update was
\* applied, c1's was refused by the adapter
C25_Witness ==
    /\ WroteUpdate("c1") /\ WroteUpdate("c2")
    /\ inflight["c1"].current._version = 2
    /\ inflight["c2"].current._version = 2
    /\ inflight["c2"].outcome = "synced"
    /\ inflight["c1"].outcome = "error"
    /\ rows[Key("todos", "r1")]._version = 3

\* the operations events among the events the last server call enqueued
OperationsEvents ==
    { delivered[i] : i \in { j \in 1 .. Len(delivered) : delivered[j].type = "operations" } }

\* C23 as stated: every record that leaves the server for a client, in a
\* pull result or in a realtime operations event, has been passed through
\* the table's transform when one is configured: the field the transform
\* removes is never delivered.
C23_TransformOnEveryRecord ==
    /\ \A i \in 1 .. Len(pulled) :
          config.tables[pulled[i].table].transform => pulled[i].data.text = None
    /\ \A e \in OperationsEvents : \A i \in 1 .. Len(e.operations) :
          config.tables[e.operations[i].table].transform =>
             e.operations[i].data.text = None

\* the connection an event was enqueued on
ConnectionOf(e) ==
    CHOOSE c \in Range(connections) : c.id = e.to

\* C30 as stated: a connection authenticated as user U never receives an
\* operations event that carries a row of a where-filtered table belonging
\* to a different user.
C30_FanOutRespectsOwnership ==
    \A e \in OperationsEvents : \A i \in 1 .. Len(e.operations) :
       LET op == e.operations[i]
           k == Key(op.table, op.data.id)
       IN  (config.tables[op.table].where /\ k \in DOMAIN rows) =>
              rows[k].userId = ConnectionOf(e).userId

\* C22: the client never discards a queued operation because of failure: a
\* remote.push or remote.pull that throws leaves the durable queue as it
\* was, an operation reported in result.errors stays in the queue, and
\* whenever an operation leaves the queue it was reported in result.synced
\* by the result just processed or conflict resolution has just applied its
\* resolved operation.
C22_FailureNeverDiscards ==
    [][ /\ trace'.call \in { "pushThrows", "pullThrows" } => QueueAfter = Queue
        /\ ResultProcessed =>
             \A id \in Reported("error") : InQueue(Queue, id) => InQueue(QueueAfter, id)
        /\ \A id \in 1 .. MaxOps :
             ( InQueue(Queue, id) /\ ~InQueue(QueueAfter, id) )
               => \/ ( ResultProcessed /\ id \in Reported("synced") )
                  \/ id \in trace'.resolved
      ]_vars

\* a cycle reported the operation in result.errors and then failed in its
\* pull: the operation is still in the queue, with status error
C22_Witness ==
    /\ trace.call = "pullThrows"
    /\ syncEngine.syncStatus = "error"
    /\ \E id \in 1 .. MaxOps :
         /\ InQueue(Queue, id)
         /\ QueueEntry(Queue, id).status = "error"

\* the sync cycles in progress, and the step in which sync() starts one
InProgress == BagCardinality(calls.syncs)
CycleStarts ==
    /\ trace'.call \in { "sync", "tick", "update" }
    /\ BagCardinality(calls'.syncs) = BagCardinality(calls.syncs) + 1

\* C24 as stated: whenever any sync cycle of the engine is in progress
\* isSyncing is true, and a cycle starts beside another one only when it was
\* started with force = true.
C24_IsSyncingMutualExclusion ==
    /\ []( InProgress > 0 => syncEngine.isSyncing )
    /\ [][ ( CycleStarts /\ InProgress > 0 ) => trace'.force ]_vars

\* C24: a sync() without force (from the application, the ticker or a
\* mutation in synchronous mode) starts a cycle only when isSyncing is
\* false, and as long as sync(true) has never been called at most one cycle
\* is in progress and isSyncing is true exactly while it is.  Once sync(true)
\* has started a cycle beside another one the flag no longer tells: the
\* cycle that ends first clears it.
C24_IsSyncingExcludesUnforced ==
    /\ [][ ( CycleStarts /\ ~trace'.force ) => ~syncEngine.isSyncing ]_vars
    /\ []( calls.forced = 0 =>
             /\ InProgress <= 1
             /\ syncEngine.isSyncing <=> InProgress = 1 )
    /\ []( syncEngine.isSyncing => InProgress >= 1 )

\* the ticker has started a cycle, without force, beside a cycle that is
\* still in progress: a sync(true) that ended in between had cleared the flag
C24_Witness ==
    /\ trace.call = "tick"
    /\ trace.ended = "awaiting"
    /\ ~trace.force
    /\ calls.forced > 0
    /\ InProgress = 2
    /\ syncEngine.isSyncing

\* the batches of authoritative operations a replica is about to apply: what
\* a pull returns to it now and what waits on its stream
Incoming(c) ==
    { PullResult(rows, replicas[c].lastSync, c, ReplicaUser) }
    \cup { replicas[c].inbox[i] : i \in 1 .. Len(replicas[c].inbox) }

\* C21: on a receiving client, applying an authoritative operation (insert,
\* update or delete) a second time, through pull or through realtime
\* delivery, leaves the store as the first application left it; the same
\* holds for a whole batch applied again and for the lastSync it leaves
C21_ApplyingTwiceIsApplyingOnce ==
    \A c \in Clients : \A ops \in Incoming(c) :
        LET store == replicas[c].store IN
        /\ \A i \in 1 .. Len(ops) :
             ApplyRemote(ApplyRemote(store, ops[i], c), ops[i], c)
               = ApplyRemote(store, ops[i], c)
        /\ ApplyRemoteAll(ApplyRemoteAll(store, ops, c), ops, c)
             = ApplyRemoteAll(store, ops, c)
        /\ NewLastSync(ops, NewLastSync(ops, replicas[c].lastSync))
             = NewLastSync(ops, replicas[c].lastSync)

\* a replica between push and pull whose pull brings a change to its store,
\* while a forwarded insert of a row it already holds waits on its stream
C21_Witness ==
    \E c \in Clients :
        /\ replicas[c].pc = "pushed"
        /\ LET ops == PullResult(rows, replicas[c].lastSync, c, ReplicaUser)
           IN  /\ ops # << >>
               /\ ApplyRemoteAll(replicas[c].store, ops, c) # replicas[c].store
        /\ replicas[c].inbox # << >>
        /\ \E i \in 1 .. Len(Head(replicas[c].inbox)) :
             LET op == Head(replicas[c].inbox)[i]
             IN  /\ op.operation = "insert"
                 /\ op.clientId # c
                 /\ Key(op.table, op.data.id) \in DOMAIN replicas[c].store
                 /\ replicas[c].store[Key(op.table, op.data.id)] # DataOf(op)

\* a replica at rest: no cycle under way, nothing queued or unresolved,
\* nothing on its way to it on the stream
AtRest(c) ==
    /\ replicas[c].pc = "idle"
    /\ replicas[c].queue = << >>
    /\ replicas[c].conflicts = << >>
    /\ replicas[c].inbox = << >>

\* the replica's copy of a server row is the row: present with the row's text
\* and version, or absent when the row is deleted
HoldsRow(c, k) ==
    IF rows[k]._isDeleted THEN k \notin DOMAIN replicas[c].store
    ELSE /\ k \in DOMAIN replicas[c].store
         /\ replicas[c].store[k].text = rows[k].text
         /\ replicas[c].store[k]._version = rows[k]._version

\* a pull by the replica now returns the row
PullBrings(c, k) ==
    LET ops == PullResult(rows, replicas[c].lastSync, c, ReplicaUser)
    IN  \E i \in 1 .. Len(ops) : Key(ops[i].table, ops[i].data.id) = k

\* C28: a delta pull never misses a change for good: whenever a replica at
\* rest has neither written nor applied the current version of a server row
\* and its copy is not that row, its lastSync is below the row's _updatedAt
\* and a pull by it returns the row
C28_DeltaPullMissesNothing ==
    \A c \in Clients : \A k \in DOMAIN rows :
        ( AtRest(c) /\ replicas[c].seen # StampOf(rows[k]) /\ ~HoldsRow(c, k) )
            => /\ replicas[c].lastSync < rows[k]._updatedAt
               /\ PullBrings(c, k)

\* no replica has a change to hand over and none has one to fetch: every
\* replica is at rest and a pull returns nothing to it
Quiescent ==
    \A c \in Clients :
        /\ AtRest(c)
        /\ PullResult(rows, replicas[c].lastSync, c, ReplicaUser) = << >>

\* C29: replicas converge: once every replica's queue is empty and a pull
\* returns it nothing, each replica's store holds exactly the server's rows
\* that are not deleted, with the same text
C29_ReplicasConverge ==
    Quiescent =>
        \A c \in Clients :
            /\ DOMAIN replicas[c].store = { k \in DOMAIN rows : ~rows[k]._isDeleted }
            /\ \A k \in DOMAIN replicas[c].store : replicas[c].store[k].text = rows[k].text

\* C37: connect() on a realtime client that is disabled sets its status to
\* fallback and opens no stream
C37_ConnectDisabledFallsBack ==
    [][ ( rcCall' = "connect" /\ ~realtimeClient.enabled )
          => /\ realtimeClient'.status = "fallback"
             /\ realtimeClient'.eventSource = "null" ]_vars

\* C38: while the realtime client is connected, every incoming event, of any
\* type, re-arms the heartbeat watchdog, so the watchdog's error path fires
\* only when no event at all came in since it was armed
C38_EveryEventRearmsWatchdog ==
    /\ [][ rcCall' \in EventTypes
             => realtimeClient'.heartbeatTimer /\ ~realtimeClient'.heard ]_vars
    /\ [][ rcCall' = "watchdog" => ~realtimeClient.heard ]_vars

\* C35: with allowedTables configured (non-empty), no connection ever
\* receives an operation of a table outside allowedTables, whatever tables
\* the client asked for (none at all, or only tables that are not allowed)
C35_AllowedTablesBoundEveryStream ==
    config.realtime.allowedTables # {} =>
        \A e \in OperationsEvents : \A i \in 1 .. Len(e.operations) :
            e.operations[i].table \in config.realtime.allowedTables

\* ---- C34 ----
ConnectionIds(conns) == { conns[i].id : i \in 1 .. Len(conns) }

UserConnectionIds(ucs, u) == { ucs[u][i] : i \in 1 .. Len(ucs[u]) }

\* the statement as written: no user ever holds more streams than
\* maxConnectionsPerUser
C34_NeverMoreThanMax ==
    \A u \in Users : Len(userConnections[u]) <= config.realtime.maxConnectionsPerUser

\* createConnection registered a stream of user u; with the user at the limit
\* one stream with the user's oldest createdAt is gone from both maps and
\* every other one is kept, below the limit every stream is kept
EvictsOldest(u) ==
    LET mine == GetUserConnections(connections, userConnections, u)
        left == ConnectionIds(connections') \cap UserConnectionIds(userConnections', u)
    IN  /\ nextConn \in left
        /\ \A v \in Users \ {u} :
              UserConnectionIds(userConnections', v) = UserConnectionIds(userConnections, v)
        /\ IF Len(mine) >= config.realtime.maxConnectionsPerUser
           THEN \E i \in 1 .. Len(mine) :
                  /\ \A j \in 1 .. Len(mine) : mine[i].createdAt <= mine[j].createdAt
                  /\ mine[i].id \notin ConnectionIds(connections')
                  /\ mine[i].id \notin UserConnectionIds(userConnections', u)
                  /\ \A j \in 1 .. Len(mine) : j # i => mine[j].id \in left
           ELSE \A j \in 1 .. Len(mine) : mine[j].id \in left

\* C34: with maxConnectionsPerUser of one or more, no user ever holds more
\* streams than maxConnectionsPerUser, and a createConnection for a user at
\* the limit closes and deregisters the stream with the oldest createdAt,
\* keeps the others and registers the new one
C34_EvictsOldestAtLimit ==
    /\ [](config.realtime.maxConnectionsPerUser >= 1 => C34_NeverMoreThanMax)
    /\ [][ nextConn' = nextConn + 1 /\ config.realtime.maxConnectionsPerUser >= 1
             => EvictsOldest(connections'[Len(connections')].userId) ]_vars

\* a user allowed two streams holds the second and third it opened, the
\* later one registered in this step, and the first is gone
C34_Witness ==
    /\ config.realtime.maxConnectionsPerUser = 2
    /\ nextConn = 3
    /\ \E u \in Users :
         /\ UserConnectionIds(userConnections, u) = { 1, 2 }
         /\ ConnectionIds(connections) = { 1, 2 }
    /\ connections[1].createdAt < connections[2].createdAt
    /\ Len(delivered) = 1 /\ delivered[1].to = 2 /\ delivered[1].type = "connected"

\* ---- C36 ----
HeartbeatsIn(events) ==
    { events[i].to : i \in { j \in 1 .. Len(events) : events[j].type = "heartbeat" } }

\* the heartbeat interval fired in this step and at least one send went through
HeartbeatFired == HeartbeatsIn(delivered') # {}

Stale(c) == now - c.lastActivity > config.realtime.connectionTimeout

\* C36: with connectionTimeout above zero, a heartbeat tick closes and
\* deregisters every connection whose lastActivity is older than the timeout,
\* and every other connection the heartbeat reached stays registered
C36_TickClosesStaleConnections ==
    [][ HeartbeatFired /\ config.realtime.connectionTimeout > 0
          => \A i \in 1 .. Len(connections) :
               LET c == connections[i] IN
               IF Stale(c)
               THEN /\ c.id \notin ConnectionIds(connections')
                    /\ c.id \notin UserConnectionIds(userConnections', c.userId)
               ELSE c.id \in HeartbeatsIn(delivered')
                      => c.id \in ConnectionIds(connections') ]_vars

\* ---- C32 ----
\* m is the newest of the timestamps of ops and of floor
NewestOf(m, ops, floor) ==
    /\ m >= floor
    /\ \A i \in 1 .. Len(ops) : m >= ops[i].timestamp
    /\ m = floor \/ \E i \in 1 .. Len(ops) : m = ops[i].timestamp

RealtimeApplied(c) == Len(replicas'[c].inbox) = Len(replicas[c].inbox) - 1

PullEnded(c) == replicas[c].pc = "pulling" /\ replicas'[c].pc = "idle"

PulledAtOnce(c) == replicas[c].pc = "pushed" /\ replicas'[c].pc = "idle"

ListedIds(cs) == { cs[i].operation : i \in 1 .. Len(cs) }

\* a sync cycle of an engine with the manual strategy and no remote.resolve
\* ran its conflict resolution in this step
ManualResolutionRan ==
    /\ seConfig.conflictResolution = "manual"
    /\ trace'.call = "pullReturns"
    /\ trace'.ended = "ok"
    /\ syncEngine.conflicts # << >>

\* the statement as written: the conflicts are still in the engine's list and
\* their operations still in the queue
C33_ManualConflictStaysListed ==
    [][ ManualResolutionRan
          => /\ ListedIds(syncEngine.conflicts) \subseteq ListedIds(syncEngine'.conflicts)
             /\ \A id \in ListedIds(syncEngine.conflicts) :
                  InQueue(localDb.queue, id) => InQueue(localDb'.queue, id) ]_vars

\* C33: under manual without remote.resolve, conflict resolution writes
\* nothing for a conflict and leaves its operation in the durable queue as it
\* was, and it empties the engine's conflicts list
C33_ManualConflictStaysQueued ==
    [][ ManualResolutionRan
          => /\ syncEngine'.conflicts = << >>
             /\ trace'.resolved = {}
             /\ localDb'.queue = localDb.queue
             /\ localDb'.store \in { localDb.store, RemoteData } ]_vars

\* a cycle of a manual engine has ended; an operation reported in a conflict
\* is pending in the queue and the conflicts list is empty
C33_Witness ==
    /\ seConfig.conflictResolution = "manual"
    /\ trace.call = "pullReturns"
    /\ trace.ended = "ok"
    /\ syncEngine.conflicts = << >>
    /\ \E id \in trace.conflicted :
         /\ InQueue(localDb.queue, id)
         /\ QueueEntry(localDb.queue, id).status = "pending"

\* ---- C40 ----
QueueIds(queue) == { queue[i].id : i \in 1 .. Len(queue) }

\* C40: whenever no sync cycle is awaiting the remote, the ids in pendingOps
\* are the ids in the durable queue, and hasPendingChanges (pendingOps is not
\* empty) is true exactly when the queue is not empty
C40_PendingOpsMirrorsQueue ==
    calls.syncs = EmptyBag
      => /\ Range(syncEngine.pendingOps) = QueueIds(localDb.queue)
         /\ (Len(syncEngine.pendingOps) > 0) <=> (Len(localDb.queue) > 0)

\* ---- C31 ----
InFlight == BagToSet(calls.syncs)

\* the operation is pending in the queue, no cycle in progress has it in its
\* snapshot and no conflict is recorded for it
NotPickedUp(id) ==
    /\ InQueue(localDb.queue, id)
    /\ QueueEntry(localDb.queue, id).status = "pending"
    /\ id \notin ListedIds(syncEngine.conflicts)
    /\ \A cyc \in InFlight : id \notin Range(cyc.batch) \cup Range(cyc.rest)

Mutated == trace'.call = "update"

CycleBegan == trace'.out # << >> /\ trace'.out[1] = "onSync:syncing"

UpdateCompleted ==
    collection.update.pc = "written" /\ collection'.update.pc = "idle"

\* C39: when update(id, partial) completes, every entry of data with that id
\* is the record the engine returned and every other entry, and the number of
\* entries, is as it was before the completion
C39_UpdateChangesOnlyItsEntry ==
    [][ UpdateCompleted
          => /\ Len(collection'.data) = Len(collection.data)
             /\ \A i \in 1 .. Len(collection.data) :
                  collection'.data[i] = IF collection.data[i].id = collection.update.id
                                        THEN collection.update.record
                                        ELSE collection.data[i] ]_vars
====
